---- MODULE Spec2Model ----
(***************************************************************************)
(* A model of zellij-utils/src/kdl/kdl_layout_parser.rs: KdlLayoutParser,  *)
(* which resolves a KDL layout document into a Layout.                     *)
(*                                                                         *)
(* The KDL document is a tree of KdlNode records.  Every parsing method    *)
(* of the parser is an operator over such nodes, written in the order of   *)
(* the statements of the method so that the first error met is the error   *)
(* returned.  `this` is the parser (&self): its global_cwd and its         *)
(* template registries.                                                    *)
(***************************************************************************)
EXTENDS Integers, Sequences, FiniteSets, TLC

VARIABLES
    raw_layout,                     \* the document: its top-level nodes
    global_cwd,                     \* KdlLayoutParser.global_cwd
    tab_templates,                  \* KdlLayoutParser.tab_templates
    pane_templates,                 \* KdlLayoutParser.pane_templates
    default_tab_template,           \* KdlLayoutParser.default_tab_template
    pc,                             \* position inside parse()
    pane_template_dependency_tree,  \* local of populate_pane_templates
    pane_template_names_to_parse,   \* local of populate_pane_templates
    child_tabs,                     \* local of parse()
    child_panes,                    \* local of parse()
    child_floating_panes,           \* local of parse()
    swap_tiled_layouts,             \* local of parse()
    swap_floating_layouts,          \* local of parse()
    next_name,                      \* how many sorted template names are parsed
    next_child,                     \* how many layout children are populated
    result,                         \* what parse() returned
    returned,                       \* what the earlier calls of parse() returned
    cmd_input,                      \* a node handed to one node-level method
    cmd_output                      \* what that method returned

vars == <<raw_layout, global_cwd, tab_templates, pane_templates, default_tab_template,
          pc, pane_template_dependency_tree, pane_template_names_to_parse,
          child_tabs, child_panes, child_floating_panes, swap_tiled_layouts,
          swap_floating_layouts, next_name, next_child, result, returned,
          cmd_input, cmd_output>>

----------------------------------------------------------------------------
(* Option<T> and Result<T, ConfigError> *)

None == <<>>
Some(x) == <<x>>
IsSome(o) == Len(o) > 0
IsNone(o) == Len(o) = 0
Unwrap(o) == o[1]

Ok(v) == [ok |-> TRUE, err |-> "", v |-> v]
Err(e) == [ok |-> FALSE, err |-> e, v |-> <<>>]

\* r? followed by the rest of the method, which gets the unwrapped value
AndThen(r, F(_)) == IF r.ok THEN F(r.v) ELSE r

\* let x = ..; followed by the rest of the method
With(x, F(_)) == F(x)

RECURSIVE SeqToSet(_)
SeqToSet(s) == IF Len(s) = 0 THEN {} ELSE {s[1]} \cup SeqToSet(Tail(s))

InsertAt(s, i, x) == SubSeq(s, 1, i) \o <<x>> \o SubSeq(s, i + 1, Len(s))

----------------------------------------------------------------------------
(* The KDL document tree (the kdl crate's KdlNode, KdlEntry, KdlValue) *)

StringValue(s) == [kind |-> "string", s |-> s, n |-> 0, b |-> FALSE]
IntValue(n) == [kind |-> "int", s |-> "", n |-> n, b |-> FALSE]
BoolValue(b) == [kind |-> "bool", s |-> "", n |-> 0, b |-> b]

NoProps == [k \in {} |-> StringValue("")]

\* name, positional arguments, named properties, and the children block
KdlNode(name) ==
    [name |-> name, entries |-> <<>>, props |-> NoProps,
     has_children |-> FALSE, children |-> <<>>]
WithProp(node, key, value) == [node EXCEPT !.props = (key :> value) @@ @]
WithArg(node, value) == [node EXCEPT !.entries = Append(@, value)]
WithChildren(node, children) ==
    [node EXCEPT !.has_children = TRUE, !.children = children]

kdl_name(node) == node.name

kdl_children_nodes(node) ==
    IF node.has_children THEN Some(node.children) ELSE None

kdl_child_with_name(node, name) ==
    With(SelectSeq(node.children, LAMBDA c : c.name = name), LAMBDA found :
        IF Len(found) = 0 THEN None ELSE Some(found[1]))

kdl_get_child(node, name) == kdl_child_with_name(node, name)

\* the first argument of a node, if it has one
FirstEntry(child) ==
    IF IsSome(child) /\ Len(Unwrap(child).entries) > 0
    THEN Some(Unwrap(child).entries[1])
    ELSE None

\* the entry holding the value: the property, else the first argument of the
\* child of that name
kdl_property_or_child_value_node(node, name) ==
    IF name \in DOMAIN node.props THEN Some(node.props[name])
    ELSE FirstEntry(kdl_child_with_name(node, name))

kdl_get_property_or_child(node, name) == kdl_property_or_child_value_node(node, name)

OfKind(entry, kind) ==
    IF IsSome(entry) /\ Unwrap(entry).kind = kind THEN entry ELSE None

PropertyOrChildOfKind(node, name, kind) ==
    IF name \in DOMAIN node.props /\ node.props[name].kind = kind
    THEN Some(node.props[name])
    ELSE OfKind(FirstEntry(kdl_child_with_name(node, name)), kind)

StringOf(entry) == IF IsSome(entry) THEN Some(Unwrap(entry).s) ELSE None
IntOf(entry) == IF IsSome(entry) THEN Some(Unwrap(entry).n) ELSE None
BoolOf(entry) == IF IsSome(entry) THEN Some(Unwrap(entry).b) ELSE None

kdl_get_string_property_or_child_value(node, name) ==
    StringOf(PropertyOrChildOfKind(node, name, "string"))

kdl_get_int_property_or_child_value(node, name) ==
    IntOf(PropertyOrChildOfKind(node, name, "int"))

kdl_get_bool_property_or_child_value(node, name) ==
    BoolOf(PropertyOrChildOfKind(node, name, "bool"))

\* the value of a child node, where a child without a value, or with a value
\* of another type, is an error
ChildValueWithError(child, kind) ==
    IF IsNone(child) THEN Ok(None)
    ELSE IF Len(Unwrap(child).entries) = 0 THEN Err("child must have a value")
    ELSE IF Unwrap(child).entries[1].kind = kind
         THEN Ok(Some(Unwrap(child).entries[1]))
         ELSE Err("child has the wrong type")

\* the _with_error forms: a value of another type, or a child without a value,
\* is an error instead of an absent value
PropertyOrChildWithError(node, name, kind) ==
    IF name \in DOMAIN node.props
    THEN IF node.props[name].kind = kind THEN Ok(Some(node.props[name]))
         ELSE Err("property has the wrong type")
    ELSE ChildValueWithError(kdl_child_with_name(node, name), kind)

kdl_get_string_property_or_child_value_with_error(node, name) ==
    AndThen(PropertyOrChildWithError(node, name, "string"), LAMBDA e : Ok(StringOf(e)))

kdl_get_bool_property_or_child_value_with_error(node, name) ==
    AndThen(PropertyOrChildWithError(node, name, "bool"), LAMBDA e : Ok(BoolOf(e)))

kdl_string_arguments(node) ==
    With(SelectSeq(node.entries, LAMBDA e : e.kind = "string"), LAMBDA strings :
        [i \in 1..Len(strings) |-> strings[i].s])

\* the names of the node's entries: a property's key, or a bare string argument
EntryNames(node) ==
    DOMAIN node.props
      \cup {node.entries[i].s : i \in {j \in 1..Len(node.entries) : node.entries[j].kind = "string"}}

HasUnnamedNonStringEntry(node) ==
    \E i \in 1..Len(node.entries) : node.entries[i].kind # "string"

----------------------------------------------------------------------------
(* std::path::PathBuf *)

PathBuf(abs, comps) == [abs |-> abs, comps |-> comps]

\* PathBuf::from on the strings the documents use
PathBufFrom(s) ==
    CASE s = "/home/user" -> PathBuf(TRUE, <<"home", "user">>)
      [] s = "/tmp" -> PathBuf(TRUE, <<"tmp">>)
      [] s = "/etc/hosts" -> PathBuf(TRUE, <<"etc", "hosts">>)
      [] s = "src/main.rs" -> PathBuf(FALSE, <<"src", "main.rs">>)
      [] OTHER -> PathBuf(FALSE, <<s>>)

\* PathBuf::join: an absolute path replaces the base
PathJoin(base, path) ==
    IF path.abs THEN path ELSE PathBuf(base.abs, base.comps \o path.comps)

----------------------------------------------------------------------------
(* input::layout: Run, RunCommand, SplitSize, PercentOrFixed *)

RunCwd(path) ==
    [kind |-> "Cwd", path |-> path, args |-> <<>>, cwd |-> None,
     hold_on_close |-> FALSE, hold_on_start |-> FALSE, location |-> ""]
RunCommand(command, args, cwd, hold_on_close, hold_on_start) ==
    [kind |-> "Command", path |-> command, args |-> args, cwd |-> cwd,
     hold_on_close |-> hold_on_close, hold_on_start |-> hold_on_start, location |-> ""]
RunEditFile(path) ==
    [kind |-> "EditFile", path |-> path, args |-> <<>>, cwd |-> None,
     hold_on_close |-> FALSE, hold_on_start |-> FALSE, location |-> ""]
RunPlugin(location, allow_exec_host_cmd) ==
    [kind |-> "Plugin", path |-> PathBuf(FALSE, <<>>), args |-> <<>>, cwd |-> None,
     hold_on_close |-> allow_exec_host_cmd, hold_on_start |-> FALSE, location |-> location]

\* Run::merge(base, other): the template's run action under the consumer's
RunMerge(base, other) ==
    IF IsNone(base) THEN other
    ELSE IF IsNone(other) THEN base
    ELSE LET b == Unwrap(base)
             o == Unwrap(other)
         IN  CASE b.kind = "Command" /\ o.kind = "Command" ->
                    Some([o EXCEPT !.cwd = IF IsNone(o.cwd) /\ IsSome(b.cwd) THEN b.cwd ELSE @,
                                   !.args = IF Len(o.args) = 0 /\ Len(b.args) > 0
                                            THEN b.args ELSE @])
               [] b.kind = "Command" /\ o.kind = "Cwd" ->
                    Some([b EXCEPT !.cwd = Some(o.path)])
               [] b.kind = "Cwd" /\ o.kind = "Command" ->
                    Some([o EXCEPT !.cwd = IF IsNone(o.cwd) THEN Some(b.path) ELSE @])
               [] b.kind = "Command" /\ o.kind = "EditFile" ->
                    IF IsSome(b.cwd) THEN Some(RunEditFile(PathJoin(Unwrap(b.cwd), o.path)))
                    ELSE Some(o)
               [] b.kind = "Cwd" /\ o.kind = "EditFile" ->
                    Some(RunEditFile(PathJoin(b.path, o.path)))
               [] OTHER -> Some(o)

\* Run::add_cwd
RunAddCwd(run, cwd) ==
    CASE run.kind = "Command" ->
            [run EXCEPT !.cwd = IF IsSome(@) THEN Some(PathJoin(cwd, Unwrap(@))) ELSE Some(cwd)]
      [] run.kind \in {"EditFile", "Cwd"} -> [run EXCEPT !.path = PathJoin(cwd, @)]
      [] OTHER -> run

\* Run::add_args, Run::add_close_on_exit, Run::add_start_suspended
RunAddArgs(run, args) ==
    IF IsSome(args) /\ run.kind = "Command" /\ Len(Unwrap(args)) > 0
    THEN [run EXCEPT !.args = Unwrap(args)] ELSE run
RunAddCloseOnExit(run, close_on_exit) ==
    IF IsSome(close_on_exit) /\ run.kind = "Command"
    THEN [run EXCEPT !.hold_on_close = ~Unwrap(close_on_exit)] ELSE run
RunAddStartSuspended(run, start_suspended) ==
    IF IsSome(start_suspended) /\ run.kind = "Command"
    THEN [run EXCEPT !.hold_on_start = Unwrap(start_suspended)] ELSE run

IsNonCwdRun(run) == IsSome(run) /\ Unwrap(run).kind # "Cwd"

Percent(n) == [kind |-> "Percent", n |-> n]
Fixed(n) == [kind |-> "Fixed", n |-> n]

\* i64 as usize.  A usize is held as its residue modulo 2^64 nearest to zero:
\* a negative n stands for 2^64 + n, the value the cast wraps to.
AsUsize(n) == n

\* the percents the quoted sizes of the documents denote; -1 is a string that
\* is not a number
PercentOfString(s) ==
    CASE s = "0%" -> 0
      [] s = "50%" -> 50
      [] s = "100%" -> 100
      [] s = "120%" -> 120
      [] OTHER -> -1

\* <SplitSize as FromStr>::from_str
SplitSizeOfPercent(n) ==
    IF n > 0 /\ n <= 100 THEN Ok(Percent(n)) ELSE Err("invalid size")
SplitSizeFromStr(s) == SplitSizeOfPercent(PercentOfString(s))

\* <PercentOrFixed as FromStr>::from_str
PercentOrFixedOfPercent(n) ==
    IF n >= 0 /\ n <= 100 THEN Ok(Percent(n)) ELSE Err("invalid size")
PercentOrFixedFromStr(s) == PercentOrFixedOfPercent(PercentOfString(s))

----------------------------------------------------------------------------
(* KdlLayoutParser: names *)

is_a_reserved_word(word) ==
    word \in {"pane", "layout", "pane_template", "tab_template", "default_tab_template",
              "command", "edit", "plugin", "children", "tab", "args", "close_on_exit",
              "start_suspended", "borderless", "focus", "name", "size", "cwd",
              "split_direction", "swap_tiled_layout", "swap_floating_layout"}

is_a_valid_pane_property(property_name) ==
    property_name \in {"borderless", "focus", "name", "size", "plugin", "command", "edit",
                       "cwd", "args", "close_on_exit", "start_suspended",
                       "split_direction", "pane", "children"}

is_a_valid_floating_pane_property(property_name) ==
    property_name \in {"borderless", "focus", "name", "plugin", "command", "edit", "cwd",
                       "args", "close_on_exit", "start_suspended", "x", "y", "width",
                       "height"}

is_a_valid_tab_property(property_name) ==
    property_name \in {"focus", "name", "split_direction", "cwd", "floating_panes",
                       "children", "max_panes", "min_panes"}

\* the characters of a string, and its first one
CharsOf(str) == {SubSeq(str, i, i) : i \in 1..Len(str)}
FirstCharOf(str) == SubSeq(str, 1, 1)

\* char::is_whitespace: the White_Space characters up to U+00FF, the range a
\* string of the model can hold: U+0009 to U+000D, U+0020, U+0085, U+00A0
Whitespace == {"\t", "\n", "", "\f", "\r", " ", "", " "}

\* char::is_numeric: the characters of the categories Nd, Nl, No up to U+00FF:
\* the digits, U+00B2, U+00B3, U+00B9 and U+00BC to U+00BE
Numeric ==
    {"0", "1", "2", "3", "4", "5", "6", "7", "8", "9",
     "²", "³", "¹", "¼", "½", "¾"}

assert_legal_node_name(name) ==
    IF CharsOf(name) \cap Whitespace # {}
    THEN Err("Node names (" \o name \o ") cannot contain whitespace.")
    ELSE IF is_a_reserved_word(name)
    THEN Err("Node name '" \o name \o "' is a reserved word.")
    ELSE Ok(None)

assert_legal_template_name(name) ==
    IF Len(name) = 0 THEN Err("Template names cannot be empty")
    ELSE IF ")" \in CharsOf(name) \/ "(" \in CharsOf(name)
    THEN Err("Template names cannot contain parantheses")
    ELSE IF FirstCharOf(name) \in Numeric
    THEN Err("Template names cannot start with numbers")
    ELSE Ok(None)

----------------------------------------------------------------------------
(* KdlLayoutParser: value parsers *)

\* Err(_e) => Err(kdl_parsing_error!(..)) around a from_str
MapErr(r, message) == IF r.ok THEN Ok(Some(r.v)) ELSE Err(message)

\* the branches of parse_split_size once the string and the integer are read
SplitSizeOf(kdl_node, str, int) ==
    IF IsSome(str)
    THEN MapErr(SplitSizeFromStr(Unwrap(str)),
                "size should be a fixed number or a quoted percent")
    ELSE IF IsSome(int)
    THEN IF Unwrap(int) = 0 THEN Err("size should be greater than 0")
         ELSE Ok(Some(Fixed(AsUsize(Unwrap(int)))))
    ELSE IF IsSome(kdl_property_or_child_value_node(kdl_node, "size"))
    THEN Err("size should be a fixed number or a quoted percent")
    ELSE IF IsSome(kdl_child_with_name(kdl_node, "size"))
    THEN Err("size cannot be bare")
    ELSE Ok(None)

parse_split_size(kdl_node) ==
    SplitSizeOf(kdl_node, kdl_get_string_property_or_child_value(kdl_node, "size"),
                kdl_get_int_property_or_child_value(kdl_node, "size"))

\* Ok(size) => .. of parse_percent_or_fixed
NonZeroUnless(can_be_zero, size) ==
    IF ~size.ok THEN Err("value should be a fixed number or a quoted percent")
    ELSE IF ~can_be_zero /\ size.v.n = 0 THEN Err("value should be greater than 0")
    ELSE Ok(Some(size.v))

\* the branches of parse_percent_or_fixed once the string and the integer are read
PercentOrFixedOf(kdl_node, can_be_zero, str, int) ==
    IF IsSome(str)
    THEN NonZeroUnless(can_be_zero, PercentOrFixedFromStr(Unwrap(str)))
    ELSE IF IsSome(int)
    THEN IF Unwrap(int) = 0 /\ ~can_be_zero THEN Err("value should be greater than 0")
         ELSE Ok(Some(Fixed(AsUsize(Unwrap(int)))))
    ELSE IF IsSome(kdl_property_or_child_value_node(kdl_node, "size"))
    THEN Err("value should be a fixed number or a quoted percent")
    ELSE IF IsSome(kdl_child_with_name(kdl_node, "size"))
    THEN Err("value cannot be bare")
    ELSE Ok(None)

parse_percent_or_fixed(kdl_node, value_name, can_be_zero) ==
    PercentOrFixedOf(kdl_node, can_be_zero,
                     kdl_get_string_property_or_child_value(kdl_node, value_name),
                     kdl_get_int_property_or_child_value(kdl_node, value_name))

\* Url::parse and RunPluginLocation::try_from on the locations the documents use
PluginLocationIsValid(location) == location \in {"zellij:tab-bar", "file:/plugin.wasm"}

parse_plugin_block(plugin_block) ==
    AndThen(kdl_get_bool_property_or_child_value_with_error(plugin_block,
                                                            "_allow_exec_host_cmd"),
            LAMBDA allow :
    AndThen(kdl_get_string_property_or_child_value_with_error(plugin_block, "location"),
            LAMBDA url :
    IF IsNone(url) THEN Err("Plugins must have a location")
    ELSE IF ~PluginLocationIsValid(Unwrap(url)) THEN Err("Failed to parse url")
    ELSE Ok(Some(RunPlugin(Unwrap(url), IF IsSome(allow) THEN Unwrap(allow) ELSE FALSE)))))

\* the match of parse_args on the args child
ArgsOf(kdl_args) ==
    IF IsNone(kdl_args) THEN Ok(None)
    ELSE IF Len(Unwrap(kdl_args).entries) = 0 /\ DOMAIN Unwrap(kdl_args).props = {}
    THEN Err("args cannot be empty")
    ELSE Ok(Some(kdl_string_arguments(Unwrap(kdl_args))))

parse_args(pane_node) == ArgsOf(kdl_get_child(pane_node, "args"))

\* a prefix that is the cwd of the tab alone when the tab has one
CwdPrefixOfTheTabFirst(this, tab_cwd) ==
    IF IsSome(tab_cwd) THEN tab_cwd ELSE this.global_cwd

cwd_prefix(this, tab_cwd) ==
    CASE IsSome(this.global_cwd) /\ IsSome(tab_cwd) ->
            Some(PathJoin(Unwrap(this.global_cwd), Unwrap(tab_cwd)))
      [] IsNone(this.global_cwd) /\ IsSome(tab_cwd) -> tab_cwd
      [] IsSome(this.global_cwd) /\ IsNone(tab_cwd) -> this.global_cwd
      [] OTHER -> None

\* .map(|c| PathBuf::from(c))
PathOf(string) == IF IsSome(string) THEN Some(PathBufFrom(Unwrap(string))) ELSE None

parse_cwd(kdl_node) ==
    AndThen(kdl_get_string_property_or_child_value_with_error(kdl_node, "cwd"),
            LAMBDA cwd : Ok(PathOf(cwd)))

----------------------------------------------------------------------------
(* KdlLayoutParser: the run action of a node *)

\* a variant that lets args stand without a command
BareAttributesButArgs(command, args, close_on_exit, start_suspended) ==
    IF IsNone(command)
    THEN IF IsSome(close_on_exit)
         THEN Err("close_on_exit can only be set if a command was specified")
         ELSE IF IsSome(start_suspended)
         THEN Err("start_suspended can only be set if a command was specified")
         ELSE Ok(None)
    ELSE Ok(None)

assert_no_bare_attributes_in_pane_node(command, args, close_on_exit, start_suspended) ==
    IF IsNone(command)
    THEN IF IsSome(close_on_exit)
         THEN Err("close_on_exit can only be set if a command was specified")
         ELSE IF IsSome(start_suspended)
         THEN Err("start_suspended can only be set if a command was specified")
         ELSE IF IsSome(args)
         THEN Err("args can only be set if a command was specified")
         ELSE Ok(None)
    ELSE Ok(None)

assert_no_bare_attributes_in_pane_node_with_template(pane_run, pane_template_run, args, close_on_exit, start_suspended) ==
    IF IsNone(pane_run) /\ IsNone(pane_template_run) /\ IsSome(args)
    THEN Err("args can only be specified if a command was specified either in the pane_template or in the pane")
    ELSE IF IsNone(pane_run) /\ IsNone(pane_template_run) /\ IsSome(close_on_exit)
    THEN Err("close_on_exit can only be specified if a command was specified either in the pane_template or in the pane")
    ELSE IF IsNone(pane_run) /\ IsNone(pane_template_run) /\ IsSome(start_suspended)
    THEN Err("start_suspended can only be specified if a command was specified either in the pane_template or in the pane")
    ELSE Ok(None)

\* a variant of the match that opens the file as named, whatever the cwd
ResolveRunEditAsNamed(command, edit, cwd, args, hold_on_close, hold_on_start) ==
    CASE IsNone(command) /\ IsNone(edit) /\ IsSome(cwd) -> Ok(Some(RunCwd(Unwrap(cwd))))
      [] IsSome(command) /\ IsNone(edit) ->
            Ok(Some(RunCommand(Unwrap(command), IF IsSome(args) THEN Unwrap(args) ELSE <<>>,
                               cwd, hold_on_close, hold_on_start)))
      [] IsNone(command) /\ IsSome(edit) -> Ok(Some(RunEditFile(Unwrap(edit))))
      [] IsSome(command) /\ IsSome(edit) ->
            Err("cannot have both a command and an edit instruction for the same pane")
      [] OTHER -> Ok(None)

\* the match on (command, edit, cwd) that ends parse_pane_command
ResolveRun(command, edit, cwd, args, hold_on_close, hold_on_start) ==
    CASE IsNone(command) /\ IsNone(edit) /\ IsSome(cwd) -> Ok(Some(RunCwd(Unwrap(cwd))))
      [] IsSome(command) /\ IsNone(edit) ->
            Ok(Some(RunCommand(Unwrap(command), IF IsSome(args) THEN Unwrap(args) ELSE <<>>,
                               cwd, hold_on_close, hold_on_start)))
      [] IsNone(command) /\ IsSome(edit) /\ IsSome(cwd) ->
            Ok(Some(RunEditFile(PathJoin(Unwrap(cwd), Unwrap(edit)))))
      [] IsNone(command) /\ IsSome(edit) /\ IsNone(cwd) -> Ok(Some(RunEditFile(Unwrap(edit))))
      [] IsSome(command) /\ IsSome(edit) ->
            Err("cannot have both a command and an edit instruction for the same pane")
      [] OTHER -> Ok(None)

parse_pane_command(pane_node, is_template) ==
    AndThen(kdl_get_string_property_or_child_value_with_error(pane_node, "command"),
            LAMBDA command :
    AndThen(kdl_get_string_property_or_child_value_with_error(pane_node, "edit"),
            LAMBDA edit :
    AndThen(parse_cwd(pane_node), LAMBDA cwd :
    AndThen(parse_args(pane_node), LAMBDA args :
    AndThen(kdl_get_bool_property_or_child_value_with_error(pane_node, "close_on_exit"),
            LAMBDA close_on_exit :
    AndThen(kdl_get_bool_property_or_child_value_with_error(pane_node, "start_suspended"),
            LAMBDA start_suspended :
    AndThen(IF is_template THEN Ok(None)
            ELSE assert_no_bare_attributes_in_pane_node(PathOf(command), args,
                                                        close_on_exit, start_suspended),
            LAMBDA checked :
    ResolveRun(PathOf(command), PathOf(edit), cwd, args,
               IF IsSome(close_on_exit) THEN ~Unwrap(close_on_exit) ELSE TRUE,
               IF IsSome(start_suspended) THEN Unwrap(start_suspended) ELSE FALSE))))))))

\* the plugin block of a node, given the run action its own attributes resolve
PluginOver(plugin_block, run) ==
    IF IsNone(plugin_block) THEN Ok(run)
    ELSE IF IsNonCwdRun(run)
    THEN Err("Cannot have both a command/edit and a plugin block for a single pane")
    ELSE parse_plugin_block(Unwrap(plugin_block))

PluginOrRun(kdl_node, run) ==
    AndThen(run, LAMBDA r : PluginOver(kdl_get_child(kdl_node, "plugin"), r))

parse_command_plugin_or_edit_block(kdl_node) ==
    PluginOrRun(kdl_node, parse_pane_command(kdl_node, FALSE))

parse_command_plugin_or_edit_block_for_template(kdl_node) ==
    PluginOrRun(kdl_node, parse_pane_command(kdl_node, TRUE))

----------------------------------------------------------------------------
(* input::layout: TiledPaneLayout, FloatingPaneLayout, SplitDirection *)

TiledPaneLayoutDefault ==
    [borderless |-> FALSE, focus |-> None, name |-> None, split_size |-> None,
     run |-> None, children_split_direction |-> "Horizontal",
     external_children_index |-> None, children |-> <<>>,
     children_are_stacked |-> FALSE]

FloatingPaneLayoutDefault ==
    [name |-> None, height |-> None, width |-> None, x |-> None, y |-> None,
     run |-> None, focus |-> None]

\* <FloatingPaneLayout as From<&TiledPaneLayout>>::from
FloatingPaneLayoutFrom(pane_layout) ==
    [FloatingPaneLayoutDefault EXCEPT !.name = pane_layout.name, !.run = pane_layout.run,
                                      !.focus = pane_layout.focus]

\* <SplitDirection as FromStr>::from_str
SplitDirectionFromStr(s) ==
    CASE s = "vertical" -> Ok("Vertical")
      [] s = "horizontal" -> Ok("Horizontal")
      [] OTHER -> Err("invalid split direction")

\* a panic of the process (Vec::insert past the end), told apart from a
\* ConfigError by its message
Panic == Err("panic: insertion index (is i) should be <= len")
IsPanic(r) == ~r.ok /\ r.err = Panic.err

\* Vec::insert(index, element)
VecInsert(vec, index, element) ==
    IF index > Len(vec) THEN Panic ELSE Ok(InsertAt(vec, index, element))

\* TiledPaneLayout::insert_children_layout: the layout goes in as one node at
\* the first children marker found, which is cleared; inserted is false when
\* the tree holds no marker
RECURSIVE insert_children_layout(_, _)
RECURSIVE InsertIntoFirstChild(_, _, _)
InsertIntoFirstChild(self, children_layout, i) ==
    IF i > Len(self.children) THEN Ok([inserted |-> FALSE, layout |-> self])
    ELSE AndThen(insert_children_layout(self.children[i], children_layout), LAMBDA r :
             IF r.inserted
             THEN Ok([inserted |-> TRUE, layout |-> [self EXCEPT !.children[i] = r.layout]])
             ELSE InsertIntoFirstChild(self, children_layout, i + 1))
insert_children_layout(self, children_layout) ==
    IF IsSome(self.external_children_index)
    THEN AndThen(VecInsert(self.children, Unwrap(self.external_children_index),
                           children_layout),
                 LAMBDA children :
                     Ok([inserted |-> TRUE,
                         layout |-> [self EXCEPT !.children = children,
                                                 !.external_children_index = None]]))
    ELSE InsertIntoFirstChild(self, children_layout, 1)

\* TiledPaneLayout::children_block_count
RECURSIVE children_block_count(_)
RECURSIVE SumBlockCounts(_, _)
SumBlockCounts(children, i) ==
    IF i > Len(children) THEN 0
    ELSE children_block_count(children[i]) + SumBlockCounts(children, i + 1)
children_block_count(self) ==
    (IF IsSome(self.external_children_index) THEN 1 ELSE 0) + SumBlockCounts(self.children, 1)

\* TiledPaneLayout::add_cwd_to_layout
RECURSIVE add_cwd_to_layout(_, _)
add_cwd_to_layout(self, cwd) ==
    [self EXCEPT !.run = IF IsSome(@) THEN Some(RunAddCwd(Unwrap(@), cwd))
                         ELSE Some(RunCwd(cwd)),
                 !.children = [i \in 1..Len(@) |-> add_cwd_to_layout(@[i], cwd)]]

\* FloatingPaneLayout::add_cwd_to_layout
floating_add_cwd_to_layout(self, cwd) ==
    [self EXCEPT !.run = IF IsSome(@) THEN Some(RunAddCwd(Unwrap(@), cwd))
                         ELSE Some(RunCwd(cwd))]

\* PaneOrFloatingPane
Pane(layout) == [kind |-> "Pane", tiled |-> layout, floating |-> FloatingPaneLayoutDefault]
FloatingPane(layout) ==
    [kind |-> "FloatingPane", tiled |-> TiledPaneLayoutDefault, floating |-> layout]
Either(layout) == [kind |-> "Either", tiled |-> layout, floating |-> FloatingPaneLayoutDefault]

\* HashMap<String, V>
EmptyMap == [k \in {} |-> None]
MapInsert(map, key, value) == (key :> value) @@ map

----------------------------------------------------------------------------
(* KdlLayoutParser: assertions on a node *)

assert_valid_pane_properties(pane_node) ==
    IF HasUnnamedNonStringEntry(pane_node) THEN Err("Unknown pane property")
    ELSE IF \E n \in EntryNames(pane_node) : ~is_a_valid_pane_property(n)
    THEN Err("Unknown pane property")
    ELSE Ok(None)

assert_valid_floating_pane_properties(pane_node) ==
    IF HasUnnamedNonStringEntry(pane_node) THEN Err("Unknown floating pane property")
    ELSE IF \E n \in EntryNames(pane_node) : ~is_a_valid_floating_pane_property(n)
    THEN Err("Unknown floating pane property")
    ELSE Ok(None)

assert_valid_pane_or_floating_pane_properties(pane_node) ==
    IF HasUnnamedNonStringEntry(pane_node) THEN Err("Unknown pane property")
    ELSE IF \E n \in EntryNames(pane_node) :
                ~is_a_valid_floating_pane_property(n) \/ ~is_a_valid_pane_property(n)
    THEN Err("Unknown pane property")
    ELSE Ok(None)

\* kdl_property_names!: the keys of the node's named properties
assert_valid_tab_properties(pane_node) ==
    IF \E n \in DOMAIN pane_node.props : ~is_a_valid_tab_property(n)
    THEN Err("Invalid tab property")
    ELSE Ok(None)

\* format!("This template has {} children blocks, only 1 is allowed ..", count)
ChildrenBlocksError(count) ==
    "This template has " \o ToString(count)
        \o " children blocks, only 1 is allowed when used to insert child panes"

\* a check that lets a template without a children block through
AssertAtMostOneChildrenBlock(layout) ==
    IF children_block_count(layout) > 1
    THEN Err(ChildrenBlocksError(children_block_count(layout)))
    ELSE Ok(None)

assert_one_children_block(layout) ==
    IF children_block_count(layout) # 1
    THEN Err(ChildrenBlocksError(children_block_count(layout)))
    ELSE Ok(None)

insert_layout_children_or_error(layout, child_panes_layout) ==
    AndThen(insert_children_layout(layout, child_panes_layout), LAMBDA r :
        IF ~r.inserted THEN Err("This template does not have children")
        ELSE Ok(r.layout))

has_child_nodes(this, kdl_node) ==
    \E i \in 1..Len(kdl_node.children) :
        \/ kdl_node.children[i].name \in {"pane", "children"}
        \/ kdl_node.children[i].name \in DOMAIN this.pane_templates

has_child_panes_tabs_or_templates(this, kdl_node) ==
    \E i \in 1..Len(kdl_node.children) :
        \/ kdl_node.children[i].name \in {"pane", "children", "tab"}
        \/ kdl_node.children[i].name \in DOMAIN this.pane_templates

\* self.method(..): the methods that parse a node and the nodes below it
\* call one another by name, Call(method, <<arguments>>)
RECURSIVE Call(_, _)

assert_no_mixed_children_and_properties(this, kdl_node) ==
    AndThen(kdl_get_bool_property_or_child_value_with_error(kdl_node, "borderless"),
            LAMBDA borderless :
    AndThen(kdl_get_string_property_or_child_value_with_error(kdl_node, "cwd"),
            LAMBDA cwd :
    AndThen(Call("parse_command_plugin_or_edit_block", <<kdl_node>>), LAMBDA run :
    IF /\ has_child_panes_tabs_or_templates(this, kdl_node)
       /\ (IsSome(borderless) \/ IsNonCwdRun(run) \/ IsSome(cwd))
    THEN Err("Cannot have both properties and nested children")
    ELSE Ok(None))))

\* the match of parse_split_direction on the split_direction it read
SplitDirectionOf(direction) ==
    IF IsNone(direction) THEN Ok("Horizontal")
    ELSE IF SplitDirectionFromStr(Unwrap(direction)).ok
    THEN SplitDirectionFromStr(Unwrap(direction))
    ELSE Err("split_direction should be either horizontal or vertical")

parse_split_direction(kdl_node) ==
    AndThen(kdl_get_string_property_or_child_value_with_error(kdl_node, "split_direction"),
            LAMBDA direction : SplitDirectionOf(direction))

\* the children nodes among the child nodes, by their place (from 1)
Markers(kdl_node) ==
    {i \in 1..Len(kdl_node.children) : kdl_node.children[i].name = "children"}

populate_external_children_index(kdl_node) ==
    IF Markers(kdl_node) = {} THEN Ok(None)
    ELSE AndThen(kdl_get_bool_property_or_child_value_with_error(kdl_node, "stacked"),
                 LAMBDA stacked :
                     Ok(Some([index |-> (CHOOSE i \in Markers(kdl_node) :
                                            \A j \in Markers(kdl_node) : i <= j) - 1,
                              is_stacked |-> IF IsSome(stacked) THEN Unwrap(stacked)
                                             ELSE FALSE])))

----------------------------------------------------------------------------
(* KdlLayoutParser: tiled panes *)

OrElse(option, default) == IF IsSome(option) THEN Unwrap(option) ELSE default
Override(option, base) == IF IsSome(option) THEN option ELSE base

\* what parse_child_pane_nodes_for_pane returns for a node without a block
NoChildPanes ==
    [external_children_index |-> None, children_are_stacked |-> FALSE, nodes |-> <<>>]

\* a layout that wraps the first of the consumer's panes only
ChildPanesLayoutOfFirstPane(children_split_direction, parts) ==
    [TiledPaneLayoutDefault EXCEPT
        !.children_split_direction = children_split_direction,
        !.children = SubSeq(parts.nodes, 1, 1),
        !.external_children_index = parts.external_children_index,
        !.children_are_stacked = parts.children_are_stacked]

\* the layout insert_children_to_pane_template wraps the consumer's panes in
ChildPanesLayout(children_split_direction, parts) ==
    [TiledPaneLayoutDefault EXCEPT
        !.children_split_direction = children_split_direction,
        !.children = parts.nodes,
        !.external_children_index = parts.external_children_index,
        !.children_are_stacked = parts.children_are_stacked]

\* the default pane parse_pane_node_with_template puts at a marker left open
InsertDefaultAtMarker(pane_template) ==
    IF IsSome(pane_template.external_children_index)
    THEN VecInsert(pane_template.children, Unwrap(pane_template.external_children_index),
                   TiledPaneLayoutDefault)
    ELSE Ok(pane_template.children)

\* the run action of a template under its consumer's, with the consumer's bare
\* args, close_on_exit and start_suspended put on it
AddBareAttributes(merged, args, close_on_exit, start_suspended) ==
    IF IsNone(merged) THEN None
    ELSE Some(RunAddStartSuspended(
                  RunAddCloseOnExit(RunAddArgs(Unwrap(merged), args), close_on_exit),
                  start_suspended))
MergedRun(template_run, run, args, close_on_exit, start_suspended) ==
    AddBareAttributes(RunMerge(template_run, run), args, close_on_exit, start_suspended)


parse_pane_node(this, kdl_node) ==
    AndThen(assert_valid_pane_properties(kdl_node), LAMBDA valid :
    AndThen(kdl_get_bool_property_or_child_value_with_error(kdl_node, "borderless"),
            LAMBDA borderless :
    AndThen(kdl_get_bool_property_or_child_value_with_error(kdl_node, "focus"),
            LAMBDA focus :
    AndThen(kdl_get_string_property_or_child_value_with_error(kdl_node, "name"),
            LAMBDA name :
    AndThen(parse_split_size(kdl_node), LAMBDA split_size :
    AndThen(Call("parse_command_plugin_or_edit_block", <<kdl_node>>), LAMBDA run :
    AndThen(parse_split_direction(kdl_node), LAMBDA children_split_direction :
    AndThen(IF IsSome(kdl_children_nodes(kdl_node))
            THEN Call("parse_child_pane_nodes_for_pane", <<this, kdl_node.children>>)
            ELSE Ok(NoChildPanes),
            LAMBDA parts :
    AndThen(Call("assert_no_mixed_children_and_properties", <<this, kdl_node>>), LAMBDA mixed :
    Ok([TiledPaneLayoutDefault EXCEPT
           !.borderless = OrElse(borderless, FALSE),
           !.focus = focus,
           !.name = name,
           !.split_size = split_size,
           !.run = run,
           !.children_split_direction = children_split_direction,
           !.external_children_index = parts.external_children_index,
           !.children = parts.nodes,
           !.children_are_stacked = parts.children_are_stacked]))))))))))

\* the template registered under the name of a node
TemplateOf(this, child) == this.pane_templates[kdl_name(child)]

\* one turn of the loop of parse_child_pane_nodes_for_pane, on the child at
\* i (the code's index is i - 1)
ChildPaneNode(this, child, i, acc) ==
    IF kdl_name(child) = "pane"
    THEN AndThen(Call("parse_pane_node", <<this, child>>), LAMBDA pane :
             Ok([acc EXCEPT !.nodes = Append(@, pane)]))
    ELSE IF kdl_name(child) = "children"
    THEN AndThen(kdl_get_bool_property_or_child_value_with_error(child, "stacked"),
                 LAMBDA stacked :
             Ok([acc EXCEPT !.external_children_index = Some(i - 1),
                            !.children_are_stacked = OrElse(stacked, FALSE)]))
    ELSE IF kdl_name(child) \in DOMAIN this.pane_templates
    THEN AndThen(Call("parse_pane_node_with_template", <<
                     this, child, TemplateOf(this, child).template, FALSE,
                     TemplateOf(this, child).kdl_node>>),
                 LAMBDA pane :
             Ok([acc EXCEPT !.nodes = Append(@, pane)]))
    ELSE IF ~is_a_valid_pane_property(kdl_name(child))
    THEN Err("Unknown pane property")
    ELSE Ok(acc)

\* the loop of parse_child_pane_nodes_for_pane, from children[i]
RECURSIVE ChildPaneNodesFrom(_, _, _, _)
ChildPaneNodesFrom(this, children, i, acc) ==
    IF i > Len(children) THEN Ok(acc)
    ELSE AndThen(ChildPaneNode(this, children[i], i, acc), LAMBDA next :
             ChildPaneNodesFrom(this, children, i + 1, next))

parse_child_pane_nodes_for_pane(this, children) ==
    ChildPaneNodesFrom(this, children, 1, NoChildPanes)

insert_children_to_pane_template(this, kdl_node, pane_template, pane_template_kdl_node) ==
    AndThen(parse_split_direction(kdl_node), LAMBDA children_split_direction :
    AndThen(IF IsSome(kdl_children_nodes(kdl_node))
            THEN Call("parse_child_pane_nodes_for_pane", <<this, kdl_node.children>>)
            ELSE Ok(NoChildPanes),
            LAMBDA parts :
    IF Len(parts.nodes) > 0
    THEN AndThen(assert_one_children_block(pane_template), LAMBDA one :
             insert_layout_children_or_error(
                 pane_template, ChildPanesLayout(children_split_direction, parts)))
    ELSE Ok(pane_template)))

\* the same tail with the template's focus kept when the template has one
ConsumedTemplateFirst(pane_template, mark, borderless, focus, name, split_size, run) ==
    AndThen(InsertDefaultAtMarker(pane_template), LAMBDA children :
        Ok([pane_template EXCEPT
               !.run = run,
               !.borderless = OrElse(borderless, @),
               !.focus = Override(@, focus),
               !.name = Override(name, @),
               !.split_size = Override(split_size, @),
               !.children = children,
               !.external_children_index =
                   IF IsSome(mark) THEN Some(Unwrap(mark).index) ELSE None,
               !.children_are_stacked =
                   IF IsSome(mark) THEN Unwrap(mark).is_stacked ELSE FALSE]))

\* the tail of parse_pane_node_with_template, from the merge of the run
\* actions on: the consumer's attributes over the template's, a default pane at
\* a marker left open, and the consumer's own marker
Consumed(pane_template, mark, borderless, focus, name, split_size, run) ==
    AndThen(InsertDefaultAtMarker(pane_template), LAMBDA children :
        Ok([pane_template EXCEPT
               !.run = run,
               !.borderless = OrElse(borderless, @),
               !.focus = Override(focus, @),
               !.name = Override(name, @),
               !.split_size = Override(split_size, @),
               !.children = children,
               !.external_children_index =
                   IF IsSome(mark) THEN Some(Unwrap(mark).index) ELSE None,
               !.children_are_stacked =
                   IF IsSome(mark) THEN Unwrap(mark).is_stacked ELSE FALSE]))

parse_pane_node_with_template(this, kdl_node, pane_template, should_mark_external_children_index, pane_template_kdl_node) ==
    IF pane_template.kind = "FloatingPane"
    THEN AndThen(kdl_get_string_property_or_child_value_with_error(pane_template_kdl_node,
                                                                   "name"),
                 LAMBDA pane_template_name :
             Err("pane_template is a floating pane template and cannot be applied to a tiled pane"))
    ELSE
    AndThen(kdl_get_bool_property_or_child_value_with_error(kdl_node, "borderless"),
            LAMBDA borderless :
    AndThen(kdl_get_bool_property_or_child_value_with_error(kdl_node, "focus"),
            LAMBDA focus :
    AndThen(kdl_get_string_property_or_child_value_with_error(kdl_node, "name"),
            LAMBDA name :
    AndThen(parse_args(kdl_node), LAMBDA args :
    AndThen(kdl_get_bool_property_or_child_value_with_error(kdl_node, "close_on_exit"),
            LAMBDA close_on_exit :
    AndThen(kdl_get_bool_property_or_child_value_with_error(kdl_node, "start_suspended"),
            LAMBDA start_suspended :
    AndThen(parse_split_size(kdl_node), LAMBDA split_size :
    AndThen(Call("parse_command_plugin_or_edit_block_for_template", <<kdl_node>>), LAMBDA run :
    AndThen(IF should_mark_external_children_index
            THEN populate_external_children_index(kdl_node)
            ELSE Ok(None),
            LAMBDA external_children_index_and_is_stacked :
    AndThen(assert_no_bare_attributes_in_pane_node_with_template(
                run, pane_template.tiled.run, args, close_on_exit, start_suspended),
            LAMBDA bare :
    AndThen(Call("insert_children_to_pane_template", <<this, kdl_node, pane_template.tiled,
                                             pane_template_kdl_node>>),
            LAMBDA inserted :
    Consumed(inserted, external_children_index_and_is_stacked, borderless, focus, name,
             split_size,
             MergedRun(inserted.run, run, args, close_on_exit, start_suspended)))))))))))))

----------------------------------------------------------------------------
(* KdlLayoutParser: floating panes *)

\* height, width, x, y of a node, parsed in that order
Geometry(kdl_node) ==
    AndThen(parse_percent_or_fixed(kdl_node, "height", FALSE), LAMBDA height :
    AndThen(parse_percent_or_fixed(kdl_node, "width", FALSE), LAMBDA width :
    AndThen(parse_percent_or_fixed(kdl_node, "x", TRUE), LAMBDA x :
    AndThen(parse_percent_or_fixed(kdl_node, "y", TRUE), LAMBDA y :
    Ok([height |-> height, width |-> width, x |-> x, y |-> y])))))

parse_floating_pane_node(this, kdl_node) ==
    AndThen(assert_valid_floating_pane_properties(kdl_node), LAMBDA valid :
    AndThen(Geometry(kdl_node), LAMBDA geometry :
    AndThen(Call("parse_command_plugin_or_edit_block", <<kdl_node>>), LAMBDA run :
    AndThen(kdl_get_bool_property_or_child_value_with_error(kdl_node, "focus"),
            LAMBDA focus :
    AndThen(kdl_get_string_property_or_child_value_with_error(kdl_node, "name"),
            LAMBDA name :
    AndThen(Call("assert_no_mixed_children_and_properties", <<this, kdl_node>>), LAMBDA mixed :
    Ok([FloatingPaneLayoutDefault EXCEPT
           !.name = name, !.height = geometry.height, !.width = geometry.width,
           !.x = geometry.x, !.y = geometry.y, !.run = run, !.focus = focus])))))))

\* the FloatingPane and Either arms of parse_floating_pane_node_with_template:
\* base is the floating pane the consumer's attributes go on, template_run
\* the run action of the template
ConsumedFloating(kdl_node, base, template_run) ==
    AndThen(kdl_get_bool_property_or_child_value_with_error(kdl_node, "focus"),
            LAMBDA focus :
    AndThen(kdl_get_string_property_or_child_value_with_error(kdl_node, "name"),
            LAMBDA name :
    AndThen(parse_args(kdl_node), LAMBDA args :
    AndThen(kdl_get_bool_property_or_child_value_with_error(kdl_node, "close_on_exit"),
            LAMBDA close_on_exit :
    AndThen(kdl_get_bool_property_or_child_value_with_error(kdl_node, "start_suspended"),
            LAMBDA start_suspended :
    AndThen(Call("parse_command_plugin_or_edit_block_for_template", <<kdl_node>>), LAMBDA run :
    AndThen(assert_no_bare_attributes_in_pane_node_with_template(
                run, template_run, args, close_on_exit, start_suspended),
            LAMBDA bare :
    AndThen(Geometry(kdl_node), LAMBDA geometry :
    Ok([base EXCEPT
           !.run = MergedRun(template_run, run, args, close_on_exit, start_suspended),
           !.focus = Override(focus, @),
           !.name = Override(name, @),
           !.height = Override(geometry.height, @),
           !.width = Override(geometry.width, @),
           !.y = Override(geometry.y, @),
           !.x = Override(geometry.x, @)])))))))))

\* the same with a tiled pane template taken for one that can be either
ConsumedFloatingWhateverTheTemplate(this, kdl_node, pane_template, pane_template_kdl_node) ==
    IF pane_template.kind = "FloatingPane"
    THEN ConsumedFloating(kdl_node, pane_template.floating, pane_template.floating.run)
    ELSE ConsumedFloating(kdl_node, FloatingPaneLayoutFrom(pane_template.tiled),
                          pane_template.tiled.run)

parse_floating_pane_node_with_template(this, kdl_node, pane_template, pane_template_kdl_node) ==
    IF pane_template.kind = "Pane"
    THEN AndThen(kdl_get_string_property_or_child_value_with_error(pane_template_kdl_node,
                                                                   "name"),
                 LAMBDA pane_template_name :
             Err("pane_template is a non-floating pane template and cannot be applied to a floating pane"))
    ELSE IF pane_template.kind = "FloatingPane"
    THEN ConsumedFloating(kdl_node, pane_template.floating, pane_template.floating.run)
    ELSE ConsumedFloating(kdl_node, FloatingPaneLayoutFrom(pane_template.tiled),
                          pane_template.tiled.run)

----------------------------------------------------------------------------
(* KdlLayoutParser: pane templates *)

\* the evidence differentiate_pane_and_floating_pane_template and
\* has_only_neutral_pane_template_properties both collect from a definition
TemplateEvidence(this, kdl_node) ==
    AndThen(kdl_get_bool_property_or_child_value_with_error(kdl_node, "borderless"),
            LAMBDA borderless :
    AndThen(parse_split_size(kdl_node), LAMBDA split_size :
    AndThen(kdl_get_string_property_or_child_value_with_error(kdl_node, "split_direction"),
            LAMBDA split_direction :
    AndThen(Geometry(kdl_node), LAMBDA geometry :
    Ok([has_pane_properties |->
            \/ IsSome(borderless)
            \/ IsSome(split_size)
            \/ IsSome(split_direction)
            \/ has_child_nodes(this, kdl_node),
        has_floating_pane_properties |->
            \/ IsSome(geometry.height)
            \/ IsSome(geometry.width)
            \/ IsSome(geometry.x)
            \/ IsSome(geometry.y)])))))

has_only_neutral_pane_template_properties(this, kdl_node) ==
    AndThen(TemplateEvidence(this, kdl_node), LAMBDA ev :
        Ok(~(ev.has_pane_properties \/ ev.has_floating_pane_properties)))

\* true for a floating pane template
differentiate_pane_and_floating_pane_template(this, kdl_node) ==
    AndThen(TemplateEvidence(this, kdl_node), LAMBDA ev :
        IF ev.has_pane_properties /\ ev.has_floating_pane_properties
        THEN Err("A pane_template cannot have both pane and floating pane properties")
        ELSE Ok(ev.has_floating_pane_properties))

TemplateEntry(template, kdl_node) == [template |-> template, kdl_node |-> kdl_node]

\* the three arms of parse_pane_template_node: the template it registers
EitherTemplate(kdl_node, focus, run) ==
    AndThen(assert_valid_pane_or_floating_pane_properties(kdl_node), LAMBDA valid :
    Ok(Either([TiledPaneLayoutDefault EXCEPT !.focus = focus, !.run = run])))

FloatingPaneTemplate(kdl_node, focus, run) ==
    AndThen(assert_valid_floating_pane_properties(kdl_node), LAMBDA valid :
    AndThen(Geometry(kdl_node), LAMBDA geometry :
    Ok(FloatingPane([FloatingPaneLayoutDefault EXCEPT
                        !.focus = focus, !.run = run,
                        !.height = geometry.height, !.width = geometry.width,
                        !.x = geometry.x, !.y = geometry.y]))))

PaneTemplate(this, kdl_node, focus, run) ==
    AndThen(assert_valid_pane_properties(kdl_node), LAMBDA valid :
    AndThen(kdl_get_bool_property_or_child_value_with_error(kdl_node, "borderless"),
            LAMBDA borderless :
    AndThen(parse_split_size(kdl_node), LAMBDA split_size :
    AndThen(parse_split_direction(kdl_node), LAMBDA children_split_direction :
    AndThen(IF IsSome(kdl_children_nodes(kdl_node))
            THEN Call("parse_child_pane_nodes_for_pane", <<this, kdl_node.children>>)
            ELSE Ok(NoChildPanes),
            LAMBDA parts :
    AndThen(Call("assert_no_mixed_children_and_properties", <<this, kdl_node>>), LAMBDA mixed :
    Ok(Pane([TiledPaneLayoutDefault EXCEPT
                !.borderless = OrElse(borderless, FALSE),
                !.focus = focus,
                !.split_size = split_size,
                !.run = run,
                !.children_split_direction = children_split_direction,
                !.external_children_index = parts.external_children_index,
                !.children = parts.nodes,
                !.children_are_stacked = parts.children_are_stacked]))))))))

\* returns the pane_templates registry with the definition inserted
parse_pane_template_node(this, kdl_node) ==
    With(kdl_get_string_property_or_child_value(kdl_node, "name"), LAMBDA template_name :
    IF IsNone(template_name) THEN Err("Pane templates must have a name")
    ELSE
    AndThen(assert_legal_node_name(Unwrap(template_name)), LAMBDA legal_node :
    AndThen(assert_legal_template_name(Unwrap(template_name)), LAMBDA legal_template :
    AndThen(kdl_get_bool_property_or_child_value_with_error(kdl_node, "focus"),
            LAMBDA focus :
    AndThen(Call("parse_command_plugin_or_edit_block", <<kdl_node>>), LAMBDA run :
    AndThen(differentiate_pane_and_floating_pane_template(this, kdl_node),
            LAMBDA is_floating :
    AndThen(has_only_neutral_pane_template_properties(this, kdl_node),
            LAMBDA can_be_either_floating_or_tiled :
    AndThen(IF can_be_either_floating_or_tiled THEN EitherTemplate(kdl_node, focus, run)
            ELSE IF is_floating THEN FloatingPaneTemplate(kdl_node, focus, run)
            ELSE PaneTemplate(this, kdl_node, focus, run),
            LAMBDA template :
    Ok(MapInsert(this.pane_templates, Unwrap(template_name),
                 TemplateEntry(template, kdl_node)))))))))))

\* the names of the nodes below `node` that are no reserved words
RECURSIVE get_pane_template_dependencies(_)
get_pane_template_dependencies(node) ==
    UNION {IF kdl_name(node.children[i]) = "pane"
              \/ ~is_a_reserved_word(kdl_name(node.children[i]))
           THEN (IF kdl_name(node.children[i]) = "pane" THEN {}
                 ELSE {kdl_name(node.children[i])})
                \cup get_pane_template_dependencies(node.children[i])
           ELSE {}
           : i \in 1..Len(node.children)}

\* one turn of the first loop of get_pane_template_dependency_tree
DependencyTreeChild(child, dependency_tree) ==
    IF kdl_name(child) # "pane_template" THEN Ok(dependency_tree)
    ELSE With(kdl_get_string_property_or_child_value(child, "name"),
              LAMBDA template_name :
             IF IsNone(template_name) THEN Err("Pane templates must have a name")
             ELSE IF Unwrap(template_name) \in DOMAIN dependency_tree
             THEN Err("Duplicate definition of the \"" \o Unwrap(template_name)
                      \o "\" pane_template")
             ELSE Ok(MapInsert(dependency_tree, Unwrap(template_name),
                               get_pane_template_dependencies(child))))

\* the first loop of get_pane_template_dependency_tree, from kdl_children[i]
RECURSIVE DependencyTreeFrom(_, _, _)
DependencyTreeFrom(kdl_children, i, dependency_tree) ==
    IF i > Len(kdl_children) THEN Ok(dependency_tree)
    ELSE AndThen(DependencyTreeChild(kdl_children[i], dependency_tree), LAMBDA next :
             DependencyTreeFrom(kdl_children, i + 1, next))

\* dependencies.retain(|d| all_pane_template_names.contains(d))
RetainTemplateNames(dependency_tree) ==
    [name \in DOMAIN dependency_tree |-> dependency_tree[name] \cap DOMAIN dependency_tree]

get_pane_template_dependency_tree(kdl_children) ==
    AndThen(DependencyTreeFrom(kdl_children, 1, [k \in {} |-> {}]), LAMBDA tree :
        Ok(RetainTemplateNames(tree)))

\* one turn of the loop of parse_pane_template_by_name; returns the registry
PaneTemplateByNameChild(this, pane_template_name, child) ==
    IF /\ kdl_name(child) = "pane_template"
       /\ kdl_get_string_property_or_child_value(child, "name") = Some(pane_template_name)
    THEN parse_pane_template_node(this, child)
    ELSE Ok(this.pane_templates)

\* parses every pane_template of that name, in document order; returns the
\* registry as the method leaves it, on an error too: what the turns before
\* the failing one inserted stays
RECURSIVE PaneTemplateByNameFrom(_, _, _, _)
PaneTemplateByNameFrom(this, pane_template_name, kdl_children, i) ==
    IF i > Len(kdl_children) THEN Ok(this.pane_templates)
    ELSE With(PaneTemplateByNameChild(this, pane_template_name, kdl_children[i]),
              LAMBDA child :
             IF ~child.ok THEN [ok |-> FALSE, err |-> child.err, v |-> this.pane_templates]
             ELSE PaneTemplateByNameFrom([this EXCEPT !.pane_templates = child.v],
                                         pane_template_name, kdl_children, i + 1))

parse_pane_template_by_name(this, pane_template_name, kdl_children) ==
    PaneTemplateByNameFrom(this, pane_template_name, kdl_children, 1)

----------------------------------------------------------------------------
(* KdlLayoutParser: floating_panes blocks, tabs and tab templates *)

\* one turn of the loop of populate_floating_pane_children
FloatingPaneChild(this, child, floating_children) ==
    IF kdl_name(child) = "pane"
    THEN AndThen(Call("parse_floating_pane_node", <<this, child>>), LAMBDA pane_node :
             Ok(Append(floating_children,
                       IF IsSome(this.global_cwd)
                       THEN floating_add_cwd_to_layout(pane_node, Unwrap(this.global_cwd))
                       ELSE pane_node)))
    ELSE IF kdl_name(child) \in DOMAIN this.pane_templates
    THEN AndThen(Call("parse_floating_pane_node_with_template", <<
                     this, child, TemplateOf(this, child).template,
                     TemplateOf(this, child).kdl_node>>),
                 LAMBDA pane_node : Ok(Append(floating_children, pane_node)))
    ELSE Err("floating_panes can only contain pane nodes")

\* the loop of populate_floating_pane_children, from children[i]
RECURSIVE FloatingPaneChildrenFrom(_, _, _, _)
FloatingPaneChildrenFrom(this, children, i, floating_children) ==
    IF i > Len(children) THEN Ok(floating_children)
    ELSE AndThen(FloatingPaneChild(this, children[i], floating_children), LAMBDA next :
             FloatingPaneChildrenFrom(this, children, i + 1, next))

populate_floating_pane_children(this, child, floating_children) ==
    IF IsSome(kdl_children_nodes(child))
    THEN FloatingPaneChildrenFrom(this, child.children, 1, floating_children)
    ELSE Ok(floating_children)

\* one turn of the loop of parse_child_pane_nodes_for_tab
ChildPaneNodeForTab(this, child, should_mark_external_children_index, acc) ==
    IF kdl_name(child) = "pane"
    THEN AndThen(Call("parse_pane_node", <<this, child>>), LAMBDA pane :
             Ok([acc EXCEPT !.nodes = Append(@, pane)]))
    ELSE IF kdl_name(child) \in DOMAIN this.pane_templates
    THEN AndThen(Call("parse_pane_node_with_template", <<
                     this, child, TemplateOf(this, child).template,
                     should_mark_external_children_index, TemplateOf(this, child).kdl_node>>),
                 LAMBDA pane :
             Ok([acc EXCEPT !.nodes = Append(@, pane)]))
    ELSE IF kdl_name(child) = "floating_panes"
    THEN AndThen(Call("populate_floating_pane_children", <<this, child, acc.floating_panes>>),
                 LAMBDA floating_children :
             Ok([acc EXCEPT !.floating_panes = floating_children]))
    ELSE IF is_a_valid_tab_property(kdl_name(child))
    THEN Err("Tab property must be placed on the tab title line and not in the child braces")
    ELSE Err("Invalid tab property")

\* the loop of parse_child_pane_nodes_for_tab, from children[i]
RECURSIVE ChildPaneNodesForTabFrom(_, _, _, _, _)
ChildPaneNodesForTabFrom(this, children, i, should_mark_external_children_index, acc) ==
    IF i > Len(children) THEN Ok(acc)
    ELSE AndThen(ChildPaneNodeForTab(this, children[i],
                                     should_mark_external_children_index, acc),
                 LAMBDA next :
             ChildPaneNodesForTabFrom(this, children, i + 1,
                                      should_mark_external_children_index, next))

\* if nodes.is_empty() { nodes.push(TiledPaneLayout::default()) }
DefaultIfEmpty(parts) ==
    IF Len(parts.nodes) = 0 THEN [parts EXCEPT !.nodes = <<TiledPaneLayoutDefault>>]
    ELSE parts

\* returns the tiled nodes, and floating_children as the call leaves it
parse_child_pane_nodes_for_tab(this, children, should_mark_external_children_index, floating_children) ==
    AndThen(ChildPaneNodesForTabFrom(this, children, 1, should_mark_external_children_index,
                                     [nodes |-> <<>>, floating_panes |-> floating_children]),
            LAMBDA parts : Ok(DefaultIfEmpty(parts)))

Tab(is_focused, tab_name, pane_layout, floating_panes) ==
    [is_focused |-> is_focused, tab_name |-> tab_name, pane_layout |-> pane_layout,
     floating_panes |-> floating_panes]

\* if let Some(cwd_prefix) = .. { layout.add_cwd_to_layout(&cwd_prefix) }
AddCwdPrefix(layout, prefix) ==
    IF IsSome(prefix) THEN add_cwd_to_layout(layout, Unwrap(prefix)) ELSE layout

parse_tab_node(this, kdl_node) ==
    AndThen(assert_valid_tab_properties(kdl_node), LAMBDA valid :
    AndThen(parse_split_direction(kdl_node), LAMBDA children_split_direction :
    AndThen(IF IsSome(kdl_children_nodes(kdl_node))
            THEN Call("parse_child_pane_nodes_for_tab", <<this, kdl_node.children, FALSE, <<>>>>)
            ELSE Ok([nodes |-> <<>>, floating_panes |-> <<>>]),
            LAMBDA children :
    Ok(Tab(OrElse(kdl_get_bool_property_or_child_value(kdl_node, "focus"), FALSE),
           kdl_get_string_property_or_child_value(kdl_node, "name"),
           AddCwdPrefix([TiledPaneLayoutDefault EXCEPT
                            !.children_split_direction = children_split_direction,
                            !.children = children.nodes],
                        cwd_prefix(this, PathOf(kdl_get_string_property_or_child_value(
                                                    kdl_node, "cwd")))),
           children.floating_panes)))))

\* the default pane a tab without a children block gets at the template's marker
InsertDefaultAtTabMarker(tab_layout) ==
    IF IsSome(tab_layout.external_children_index)
    THEN VecInsert(tab_layout.children, Unwrap(tab_layout.external_children_index),
                   TiledPaneLayoutDefault)
    ELSE Ok(tab_layout.children)

\* the Some(children) arm of parse_tab_node_with_template: the tab's panes go
\* into the template as one layout; returns the layout and the floating panes
TabChildrenInserted(this, kdl_node, tab_layout, tab_template_floating_panes, should_mark_external_children_index, children_split_direction) ==
    AndThen(Call("parse_child_pane_nodes_for_tab", <<this, kdl_node.children,
                                           should_mark_external_children_index,
                                           tab_template_floating_panes>>),
            LAMBDA tab_child_panes :
    AndThen(assert_one_children_block(tab_layout), LAMBDA one :
    AndThen(insert_layout_children_or_error(
                tab_layout,
                [TiledPaneLayoutDefault EXCEPT
                    !.children_split_direction = children_split_direction,
                    !.children = tab_child_panes.nodes]),
            LAMBDA layout :
    Ok([layout |-> layout, floating_panes |-> tab_child_panes.floating_panes]))))

\* the None arm: a default pane at the template's marker
TabDefaultInserted(tab_layout, tab_template_floating_panes) ==
    AndThen(InsertDefaultAtTabMarker(tab_layout), LAMBDA children :
    Ok([layout |-> [tab_layout EXCEPT !.children = children],
        floating_panes |-> tab_template_floating_panes]))

parse_tab_node_with_template(this, kdl_node, tab_layout, tab_template_floating_panes, should_mark_external_children_index, tab_layout_kdl_node) ==
    AndThen(parse_split_direction(kdl_node), LAMBDA children_split_direction :
    AndThen(IF IsSome(kdl_children_nodes(kdl_node))
            THEN TabChildrenInserted(this, kdl_node, tab_layout, tab_template_floating_panes,
                                     should_mark_external_children_index,
                                     children_split_direction)
            ELSE TabDefaultInserted(tab_layout, tab_template_floating_panes),
            LAMBDA filled :
    Ok(Tab(OrElse(kdl_get_bool_property_or_child_value(kdl_node, "focus"), FALSE),
           kdl_get_string_property_or_child_value(kdl_node, "name"),
           [AddCwdPrefix(filled.layout,
                         cwd_prefix(this, PathOf(kdl_get_string_property_or_child_value(
                                                     kdl_node, "cwd"))))
               EXCEPT !.external_children_index = None],
           filled.floating_panes))))

\* the children node of a tab template must be bare
ChildrenNodeIsBare(child) ==
    /\ ~(child.has_children /\ Len(child.children) > 0)
    /\ Len(child.entries) = 0
    /\ DOMAIN child.props = {}

\* i.saturating_sub(children_index_offset)
SaturatingSub(a, b) == IF a >= b THEN a - b ELSE 0

\* one turn of the loop of parse_tab_template_node, on the child at i (the
\* code's index is i - 1)
TabTemplateChild(this, child, i, acc) ==
    IF kdl_name(child) = "pane"
    THEN AndThen(Call("parse_pane_node", <<this, child>>), LAMBDA pane :
             Ok([acc EXCEPT !.tab_children = Append(@, pane)]))
    ELSE IF kdl_name(child) = "children"
    THEN IF ~ChildrenNodeIsBare(child)
         THEN Err("The children node must be bare")
         ELSE Ok([acc EXCEPT !.external_children_index =
                                 Some(SaturatingSub(i - 1, acc.children_index_offset))])
    ELSE IF kdl_name(child) \in DOMAIN this.pane_templates
    THEN AndThen(Call("parse_pane_node_with_template", <<
                     this, child, TemplateOf(this, child).template, FALSE,
                     TemplateOf(this, child).kdl_node>>),
                 LAMBDA pane :
             Ok([acc EXCEPT !.tab_children = Append(@, pane)]))
    ELSE IF kdl_name(child) = "floating_panes"
    THEN AndThen(Call("populate_floating_pane_children", <<this, child, acc.tab_floating_children>>),
                 LAMBDA floating_children :
             Ok([acc EXCEPT !.children_index_offset = @ + 1,
                            !.tab_floating_children = floating_children]))
    ELSE IF is_a_valid_tab_property(kdl_name(child))
    THEN Err("Tab property must be placed on the tab_template title line and not in the child braces")
    ELSE Err("Invalid tab_template property")

\* the loop of parse_tab_template_node, from children[i]
RECURSIVE TabTemplateChildrenFrom(_, _, _, _)
TabTemplateChildrenFrom(this, children, i, acc) ==
    IF i > Len(children) THEN Ok(acc)
    ELSE AndThen(TabTemplateChild(this, children[i], i, acc), LAMBDA next :
             TabTemplateChildrenFrom(this, children, i + 1, next))

TabTemplate(layout, floating_panes, kdl_node) ==
    [layout |-> layout, floating_panes |-> floating_panes, kdl_node |-> kdl_node]

parse_tab_template_node(this, kdl_node) ==
    AndThen(assert_valid_tab_properties(kdl_node), LAMBDA valid :
    AndThen(parse_split_direction(kdl_node), LAMBDA children_split_direction :
    AndThen(TabTemplateChildrenFrom(this, kdl_node.children, 1,
                [tab_children |-> <<>>, tab_floating_children |-> <<>>,
                 external_children_index |-> None, children_index_offset |-> 0]),
            LAMBDA children :
    Ok(TabTemplate([TiledPaneLayoutDefault EXCEPT
                       !.children_split_direction = children_split_direction,
                       !.children = children.tab_children,
                       !.external_children_index = children.external_children_index],
                   children.tab_floating_children, kdl_node)))))

Call(method, a) ==
    CASE method = "assert_no_mixed_children_and_properties" ->
             assert_no_mixed_children_and_properties(a[1], a[2])
      [] method = "parse_command_plugin_or_edit_block" ->
             parse_command_plugin_or_edit_block(a[1])
      [] method = "parse_command_plugin_or_edit_block_for_template" ->
             parse_command_plugin_or_edit_block_for_template(a[1])
      [] method = "parse_pane_node" -> parse_pane_node(a[1], a[2])
      [] method = "parse_child_pane_nodes_for_pane" ->
             parse_child_pane_nodes_for_pane(a[1], a[2])
      [] method = "insert_children_to_pane_template" ->
             insert_children_to_pane_template(a[1], a[2], a[3], a[4])
      [] method = "parse_pane_node_with_template" ->
             parse_pane_node_with_template(a[1], a[2], a[3], a[4], a[5])
      [] method = "parse_floating_pane_node" -> parse_floating_pane_node(a[1], a[2])
      [] method = "parse_floating_pane_node_with_template" ->
             parse_floating_pane_node_with_template(a[1], a[2], a[3], a[4])
      [] method = "populate_floating_pane_children" ->
             populate_floating_pane_children(a[1], a[2], a[3])
      [] method = "parse_child_pane_nodes_for_tab" ->
             parse_child_pane_nodes_for_tab(a[1], a[2], a[3], a[4])
      [] method = "parse_tab_node" -> parse_tab_node(a[1], a[2])
      [] method = "parse_tab_node_with_template" ->
             parse_tab_node_with_template(a[1], a[2], a[3], a[4], a[5], a[6])
      [] method = "parse_tab_template_node" -> parse_tab_template_node(a[1], a[2])

\* populate_one_tab_template without the look into pane_templates
PopulateOneTabTemplateAmongTabTemplates(this, kdl_node) ==
    AndThen(kdl_get_string_property_or_child_value_with_error(kdl_node, "name"),
            LAMBDA template_name :
    IF IsNone(template_name) THEN Err("Tab templates must have a name")
    ELSE
    AndThen(assert_legal_node_name(Unwrap(template_name)), LAMBDA legal_node :
    AndThen(assert_legal_template_name(Unwrap(template_name)), LAMBDA legal_template :
    IF Unwrap(template_name) \in DOMAIN this.tab_templates
    THEN Err("Duplicate definition of the \"" \o Unwrap(template_name) \o "\" tab_template")
    ELSE AndThen(Call("parse_tab_template_node", <<this, kdl_node>>), LAMBDA tab_template :
             Ok(MapInsert(this.tab_templates, Unwrap(template_name), tab_template))))))

\* returns the tab_templates registry with the definition inserted
populate_one_tab_template(this, kdl_node) ==
    AndThen(kdl_get_string_property_or_child_value_with_error(kdl_node, "name"),
            LAMBDA template_name :
    IF IsNone(template_name) THEN Err("Tab templates must have a name")
    ELSE
    AndThen(assert_legal_node_name(Unwrap(template_name)), LAMBDA legal_node :
    AndThen(assert_legal_template_name(Unwrap(template_name)), LAMBDA legal_template :
    IF Unwrap(template_name) \in DOMAIN this.tab_templates
    THEN Err("Duplicate definition of the \"" \o Unwrap(template_name) \o "\" tab_template")
    ELSE IF Unwrap(template_name) \in DOMAIN this.pane_templates
    THEN Err("There is already a pane_template with the name \"" \o Unwrap(template_name)
             \o "\" - can't have a tab_template with the same name")
    ELSE AndThen(Call("parse_tab_template_node", <<this, kdl_node>>), LAMBDA tab_template :
             Ok(MapInsert(this.tab_templates, Unwrap(template_name), tab_template))))))

\* returns the new default_tab_template
populate_default_tab_template(this, kdl_node) ==
    AndThen(Call("parse_tab_template_node", <<this, kdl_node>>), LAMBDA tab_template :
        Ok(Some(tab_template)))

\* the Some arm of default_template
DefaultTemplateOf(template) ==
    AndThen(InsertDefaultAtTabMarker(template), LAMBDA children :
        Ok(Some([template EXCEPT !.children = children,
                                 !.external_children_index = None])))

default_template(this) ==
    IF IsNone(this.default_tab_template) THEN Ok(None)
    ELSE DefaultTemplateOf(Unwrap(this.default_tab_template).layout)

----------------------------------------------------------------------------
(* KdlLayoutParser: swap layouts *)

NoConstraint == [kind |-> "NoConstraint", n |-> 0]
MinPanes(n) == [kind |-> "MinPanes", n |-> n]
MaxPanes(n) == [kind |-> "MaxPanes", n |-> n]

\* parse_constraint without the test for two constraints: min_panes wins
ParseConstraintMinFirst(layout_node) ==
    LET max_panes == kdl_get_int_property_or_child_value(layout_node, "max_panes")
        min_panes == kdl_get_int_property_or_child_value(layout_node, "min_panes")
    IN  IF IsSome(kdl_get_string_property_or_child_value(layout_node, "max_panes"))
        THEN Err("max_panes should be a fixed number (eg. 1) and not a quoted string")
        ELSE IF IsSome(kdl_get_string_property_or_child_value(layout_node, "min_panes"))
        THEN Err("min_panes should be a fixed number (eg. 1) and not a quoted string")
        ELSE IF IsSome(min_panes) THEN Ok(MinPanes(AsUsize(Unwrap(min_panes))))
        ELSE IF IsSome(max_panes) THEN Ok(MaxPanes(AsUsize(Unwrap(max_panes))))
        ELSE Ok(NoConstraint)

parse_constraint(layout_node) ==
    LET max_panes == kdl_get_int_property_or_child_value(layout_node, "max_panes")
        min_panes == kdl_get_int_property_or_child_value(layout_node, "min_panes")
    IN  IF IsSome(kdl_get_string_property_or_child_value(layout_node, "max_panes"))
        THEN Err("max_panes should be a fixed number (eg. 1) and not a quoted string")
        ELSE IF IsSome(kdl_get_string_property_or_child_value(layout_node, "min_panes"))
        THEN Err("min_panes should be a fixed number (eg. 1) and not a quoted string")
        ELSE IF IsSome(min_panes) /\ IsSome(max_panes)
        THEN Err("cannot have more than one constraint (eg. max_panes + min_panes)")
        ELSE IF IsSome(min_panes) THEN Ok(MinPanes(AsUsize(Unwrap(min_panes))))
        ELSE IF IsSome(max_panes) THEN Ok(MaxPanes(AsUsize(Unwrap(max_panes))))
        ELSE Ok(NoConstraint)

populate_one_swap_tiled_layout(this, layout_node) ==
    AndThen(assert_valid_tab_properties(layout_node), LAMBDA valid :
    AndThen(parse_split_direction(layout_node), LAMBDA children_split_direction :
    AndThen(IF IsSome(kdl_children_nodes(layout_node))
            THEN Call("parse_child_pane_nodes_for_tab", <<this, layout_node.children, TRUE, <<>>>>)
            ELSE Ok([nodes |-> <<>>, floating_panes |-> <<>>]),
            LAMBDA children :
    Ok([TiledPaneLayoutDefault EXCEPT
           !.children_split_direction = children_split_direction,
           !.children = children.nodes]))))

populate_one_swap_tiled_layout_with_template(this, layout_node, tab_template, tab_template_kdl_node) ==
    AndThen(Call("parse_tab_node_with_template", <<this, layout_node, tab_template, <<>>, TRUE,
                                         tab_template_kdl_node>>),
            LAMBDA layout : Ok(layout.pane_layout))

populate_one_swap_floating_layout(this, layout_node) ==
    AndThen(assert_valid_tab_properties(layout_node), LAMBDA valid :
        Call("populate_floating_pane_children", <<this, layout_node, <<>>>>))

populate_one_swap_floating_layout_with_template(this, layout_node, tab_template, tab_template_floating_panes, tab_template_kdl_node) ==
    AndThen(Call("parse_tab_node_with_template", <<this, layout_node, tab_template,
                                         tab_template_floating_panes, FALSE,
                                         tab_template_kdl_node>>),
            LAMBDA layout : Ok(layout.floating_panes))

\* the layout of one alternate of a swap_tiled_layout (is_tiled) or
\* swap_floating_layout group
SwapAlternateLayout(this, layout, is_tiled, t) ==
    IF kdl_name(layout) = (IF is_tiled THEN "tab" ELSE "floating_panes")
    THEN IF is_tiled THEN populate_one_swap_tiled_layout(this, layout)
         ELSE populate_one_swap_floating_layout(this, layout)
    ELSE IF is_tiled
    THEN populate_one_swap_tiled_layout_with_template(this, layout, t.layout, t.kdl_node)
    ELSE populate_one_swap_floating_layout_with_template(this, layout, t.layout,
                                                         t.floating_panes, t.kdl_node)

\* one alternate: Ok(None) when the node is skipped, Ok(Some([constraint, layout]))
\* otherwise
SwapAlternate(this, layout, is_tiled) ==
    IF kdl_name(layout) # (IF is_tiled THEN "tab" ELSE "floating_panes")
       /\ kdl_name(layout) \notin DOMAIN this.tab_templates
    THEN Ok(None)
    ELSE AndThen(parse_constraint(layout), LAMBDA layout_constraint :
         AndThen(SwapAlternateLayout(this, layout, is_tiled,
                     IF kdl_name(layout) \in DOMAIN this.tab_templates
                     THEN this.tab_templates[kdl_name(layout)]
                     ELSE TabTemplate(TiledPaneLayoutDefault, <<>>, layout)),
                 LAMBDA parsed :
         Ok(Some([constraint |-> layout_constraint, layout |-> parsed]))))

\* the inner loop: the BTreeMap of one group, built from group[i] on
RECURSIVE SwapGroupFrom(_, _, _, _, _)
SwapGroupFrom(this, group, i, is_tiled, map) ==
    IF i > Len(group) THEN Ok(map)
    ELSE AndThen(SwapAlternate(this, group[i], is_tiled), LAMBDA alternate :
             SwapGroupFrom(this, group, i + 1, is_tiled,
                           IF IsSome(alternate)
                           THEN MapInsert(map, Unwrap(alternate).constraint,
                                          Unwrap(alternate).layout)
                           ELSE map))

\* one turn of the outer loop of populate_swap_tiled_layouts /
\* populate_swap_floating_layouts
SwapLayoutsChild(this, child, is_tiled, swap_layouts) ==
    IF kdl_name(child) = (IF is_tiled THEN "swap_tiled_layout" ELSE "swap_floating_layout")
       /\ IsSome(kdl_children_nodes(child))
    THEN AndThen(SwapGroupFrom(this, child.children, 1, is_tiled, EmptyMap), LAMBDA group :
             Ok(Append(swap_layouts, group)))
    ELSE Ok(swap_layouts)

\* the outer loop, from layout_children[i]
RECURSIVE SwapLayoutsFrom(_, _, _, _, _)
SwapLayoutsFrom(this, layout_children, i, is_tiled, swap_layouts) ==
    IF i > Len(layout_children) THEN Ok(swap_layouts)
    ELSE AndThen(SwapLayoutsChild(this, layout_children[i], is_tiled, swap_layouts),
                 LAMBDA next :
             SwapLayoutsFrom(this, layout_children, i + 1, is_tiled, next))

populate_swap_tiled_layouts(this, layout_children) ==
    SwapLayoutsFrom(this, layout_children, 1, TRUE, <<>>)

populate_swap_floating_layouts(this, layout_children) ==
    SwapLayoutsFrom(this, layout_children, 1, FALSE, <<>>)

----------------------------------------------------------------------------
(* KdlLayoutParser: the layout node and the final Layout *)

\* returns the new global_cwd
populate_global_cwd(this, layout_node) ==
    IF IsSome(this.global_cwd) THEN Ok(this.global_cwd)
    ELSE AndThen(kdl_get_string_property_or_child_value_with_error(layout_node, "cwd"),
                 LAMBDA cwd :
             IF IsSome(cwd) THEN Ok(Some(PathBufFrom(Unwrap(cwd)))) ELSE Ok(None))

\* the three vectors populate_layout_child writes to
LayoutChildren(tabs, panes, floating_panes) ==
    [child_tabs |-> tabs, child_panes |-> panes, child_floating_panes |-> floating_panes]

\* the tab arm: a tab node, through the default tab template when there is one
LayoutTabNode(this, child) ==
    IF IsSome(this.default_tab_template)
    THEN Call("parse_tab_node_with_template", <<this, child,
             Unwrap(this.default_tab_template).layout,
             Unwrap(this.default_tab_template).floating_panes, FALSE,
             Unwrap(this.default_tab_template).kdl_node>>)
    ELSE Call("parse_tab_node", <<this, child>>)

populate_layout_child(this, child, tabs, panes, floating_panes) ==
    IF (kdl_name(child) = "pane" \/ kdl_name(child) = "floating_panes") /\ Len(tabs) > 0
    THEN Err("Cannot have both tabs and panes in the same node")
    ELSE IF kdl_name(child) = "pane"
    THEN AndThen(Call("parse_pane_node", <<this, child>>), LAMBDA pane_node :
             Ok(LayoutChildren(tabs,
                               Append(panes, AddCwdPrefix(pane_node, this.global_cwd)),
                               floating_panes)))
    ELSE IF kdl_name(child) = "floating_panes"
    THEN AndThen(Call("populate_floating_pane_children", <<this, child, floating_panes>>),
                 LAMBDA floating_children :
             Ok(LayoutChildren(tabs, panes, floating_children)))
    ELSE IF kdl_name(child) = "tab"
    THEN IF Len(panes) > 0 \/ Len(floating_panes) > 0
         THEN Err("Cannot have both tabs and panes in the same node")
         ELSE AndThen(LayoutTabNode(this, child), LAMBDA tab :
                  Ok(LayoutChildren(Append(tabs, tab), panes, floating_panes)))
    ELSE IF kdl_name(child) \in DOMAIN this.tab_templates
    THEN IF Len(panes) > 0
         THEN Err("Cannot have both tabs and panes in the same node")
         ELSE AndThen(Call("parse_tab_node_with_template", <<this, child,
                          this.tab_templates[kdl_name(child)].layout,
                          this.tab_templates[kdl_name(child)].floating_panes, FALSE,
                          this.tab_templates[kdl_name(child)].kdl_node>>),
                      LAMBDA tab :
                  Ok(LayoutChildren(Append(tabs, tab), panes, floating_panes)))
    ELSE IF kdl_name(child) \in DOMAIN this.pane_templates
    THEN IF Len(tabs) > 0
         THEN Err("Cannot have both tabs and panes in the same node")
         ELSE AndThen(Call("parse_pane_node_with_template", <<this, child,
                          TemplateOf(this, child).template, FALSE,
                          TemplateOf(this, child).kdl_node>>),
                      LAMBDA pane_node :
                  Ok(LayoutChildren(tabs,
                                    Append(panes,
                                           AddCwdPrefix(pane_node, cwd_prefix(this, None))),
                                    floating_panes)))
    ELSE IF ~is_a_reserved_word(kdl_name(child))
    THEN Err("Unknown layout node")
    ELSE Ok(LayoutChildren(tabs, panes, floating_panes))

Layout(tabs, focused_tab_index, template, swap_tiled, swap_floating) ==
    [tabs |-> tabs, focused_tab_index |-> focused_tab_index, template |-> template,
     swap_tiled_layouts |-> swap_tiled, swap_floating_layouts |-> swap_floating]

\* an entry of Layout.tabs, and the pair in Layout.template
LayoutTab(tab_name, pane_layout, floating_panes) ==
    [tab_name |-> tab_name, pane_layout |-> pane_layout, floating_panes |-> floating_panes]

layout_with_tabs(this, tabs, focused_tab_index, swap_tiled, swap_floating) ==
    AndThen(default_template(this), LAMBDA template :
        Ok(Layout(tabs, focused_tab_index,
                  Some(LayoutTab(None, OrElse(template, TiledPaneLayoutDefault), <<>>)),
                  swap_tiled, swap_floating)))

\* the same with the synthetic tab built whether or not a default tab template
\* is declared
LayoutWithOneTabAlways(this, panes, floating_panes, swap_tiled, swap_floating) ==
    AndThen(default_template(this), LAMBDA template :
        Ok(Layout(<<LayoutTab(None, [TiledPaneLayoutDefault EXCEPT !.children = panes],
                              floating_panes)>>,
                  None,
                  Some(LayoutTab(None,
                                 OrElse(template,
                                        [TiledPaneLayoutDefault EXCEPT !.children = panes]),
                                 floating_panes)),
                  swap_tiled, swap_floating)))

layout_with_one_tab(this, panes, floating_panes, swap_tiled, swap_floating) ==
    AndThen(default_template(this), LAMBDA template :
        Ok(Layout(IF IsNone(template) THEN <<>>
                  ELSE <<LayoutTab(None, [TiledPaneLayoutDefault EXCEPT !.children = panes],
                                   floating_panes)>>,
                  None,
                  Some(LayoutTab(None,
                                 OrElse(template,
                                        [TiledPaneLayoutDefault EXCEPT !.children = panes]),
                                 floating_panes)),
                  swap_tiled, swap_floating)))

layout_with_one_pane(this, floating_panes, swap_tiled, swap_floating) ==
    AndThen(default_template(this), LAMBDA template :
        Ok(Layout(<<>>, None,
                  Some(LayoutTab(None, OrElse(template, TiledPaneLayoutDefault),
                                 floating_panes)),
                  swap_tiled, swap_floating)))

\* position(|(is_focused, ..)| *is_focused)
RECURSIVE FocusedPosition(_, _)
FocusedPosition(tabs, i) ==
    IF i > Len(tabs) THEN None
    ELSE IF tabs[i].is_focused THEN Some(i - 1)
    ELSE FocusedPosition(tabs, i + 1)

\* the same tail without the check on the number of focused tabs
FinishParseFirstFocused(this, tabs, panes, floating_panes, swap_tiled, swap_floating) ==
    IF Len(tabs) > 0
    THEN layout_with_tabs(this,
             [i \in 1..Len(tabs) |->
                 LayoutTab(tabs[i].tab_name, tabs[i].pane_layout, tabs[i].floating_panes)],
             FocusedPosition(tabs, 1), swap_tiled, swap_floating)
    ELSE IF Len(panes) > 0
    THEN layout_with_one_tab(this, panes, floating_panes, swap_tiled, swap_floating)
    ELSE layout_with_one_pane(this, floating_panes, swap_tiled, swap_floating)

\* the tail of parse(), once every layout child is populated
FinishParse(this, tabs, panes, floating_panes, swap_tiled, swap_floating) ==
    IF Len(tabs) > 0
    THEN IF Cardinality({i \in 1..Len(tabs) : tabs[i].is_focused}) > 1
         THEN Err("Only one tab can be focused")
         ELSE layout_with_tabs(this,
                  [i \in 1..Len(tabs) |->
                      LayoutTab(tabs[i].tab_name, tabs[i].pane_layout, tabs[i].floating_panes)],
                  FocusedPosition(tabs, 1), swap_tiled, swap_floating)
    ELSE IF Len(panes) > 0
    THEN layout_with_one_tab(this, panes, floating_panes, swap_tiled, swap_floating)
    ELSE layout_with_one_pane(this, floating_panes, swap_tiled, swap_floating)

----------------------------------------------------------------------------
(* KdlLayoutParser: the loops of populate_pane_templates and populate_tab_templates *)

\* a round that takes a template depending on nothing but itself for a candidate
CandidatesButSelf(dependency_tree) ==
    {name \in DOMAIN dependency_tree : dependency_tree[name] \ {name} = {}}

\* the templates a toposort round may pick: those with no dependency left
Candidates(dependency_tree) ==
    {name \in DOMAIN dependency_tree : dependency_tree[name] = {}}

\* a round that forgets the dependencies of the templates it leaves in the tree
RemoveCandidatesAndDependencies(dependency_tree, candidates) ==
    [name \in DOMAIN dependency_tree \ candidates |-> {}]

\* a round that leaves the tree as it is
RemoveNoCandidate(dependency_tree, candidates) == dependency_tree

\* the tree after a round removed the candidates
RemoveCandidates(dependency_tree, candidates) ==
    [name \in DOMAIN dependency_tree \ candidates |-> dependency_tree[name] \ candidates]

\* the orders in which a HashMap may hand out the candidates
Orderings(candidates) ==
    {order \in [1..Cardinality(candidates) -> candidates] :
        \A i, j \in 1..Cardinality(candidates) : i # j => order[i] # order[j]}

\* one turn of the loop of populate_tab_templates; returns the parser with
\* the two registries it writes
TabTemplatesChild(this, child) ==
    IF kdl_name(child) = "tab_template"
    THEN AndThen(populate_one_tab_template(this, child), LAMBDA templates :
             Ok([this EXCEPT !.tab_templates = templates]))
    ELSE IF kdl_name(child) = "default_tab_template"
    THEN AndThen(populate_default_tab_template(this, child), LAMBDA template :
             Ok([this EXCEPT !.default_tab_template = template]))
    ELSE Ok(this)

\* the two registries of the parser
TabTemplateFields(this) ==
    [tab_templates |-> this.tab_templates,
     default_tab_template |-> this.default_tab_template]

\* child? in the loop: the error, next to the registries as the turns before
\* it left them
FailedWith(r, this) == [ok |-> FALSE, err |-> r.err, v |-> TabTemplateFields(this)]

\* the loop of populate_tab_templates, from layout_children[i]; returns the
\* two registries as the method leaves them, on an error too
RECURSIVE TabTemplatesFrom(_, _, _)
TabTemplatesFrom(this, layout_children, i) ==
    IF i > Len(layout_children) THEN Ok(TabTemplateFields(this))
    ELSE With(TabTemplatesChild(this, layout_children[i]), LAMBDA next :
             IF ~next.ok THEN FailedWith(next, this)
             ELSE TabTemplatesFrom(next.v, layout_children, i + 1))

\* a single pass over the document: only the tab templates defined before the
\* first node that is not a definition
PopulateTabTemplatesBeforeFirstUse(this, layout_children) ==
    LET uses == {i \in 1..Len(layout_children) :
                    kdl_name(layout_children[i])
                        \notin {"pane_template", "tab_template", "default_tab_template"}}
    IN  TabTemplatesFrom(this,
                         IF uses = {} THEN layout_children
                         ELSE SubSeq(layout_children, 1,
                                     (CHOOSE i \in uses : \A j \in uses : i <= j) - 1),
                         1)

populate_tab_templates(this, layout_children) == TabTemplatesFrom(this, layout_children, 1)

----------------------------------------------------------------------------
(* The documents parse() is run on *)

MaxDeps == 3            \* most names one pane template body invokes
MaxBody == 3            \* most child nodes in the body of a template
MaxConsumerPanes == 2   \* most panes nested in the node consuming a template

TemplateNames == {"a", "b", "c"}
NameOrder == <<"a", "b", "c", "d", "e", "f", "g", "h", "i">>

InOrder(names) == SelectSeq(NameOrder, LAMBDA n : n \in names)
SeqsUpTo(S, n) == UNION {[1..k -> S] : k \in 0..n}
Reverse(s) == [i \in 1..Len(s) |-> s[Len(s) + 1 - i]]

OptionsOf(S) == {None} \cup {Some(x) : x \in S}

\* a property of the node where the attribute is declared
WithOptionalProp(node, key, value) ==
    IF IsSome(value) THEN WithProp(node, key, Unwrap(value)) ELSE node

Named(node, name) == WithProp(node, "name", StringValue(name))
PaneNode == KdlNode("pane")
ChildrenNode == KdlNode("children")
LayoutDoc(children) == <<WithChildren(KdlNode("layout"), children)>>

\* pane_template name=<name> { pane; <d1>; pane { <d2> }; pane { pane { <d3> } } }
\* for the names d1, d2, d3 it depends on
DependentTemplate(name, deps) ==
    LET ds == InOrder(deps)
        Invocation(i) ==
            CASE i = 1 -> KdlNode(ds[i])
              [] i = 2 -> WithChildren(PaneNode, <<KdlNode(ds[i])>>)
              [] OTHER -> WithChildren(PaneNode, <<WithChildren(PaneNode, <<KdlNode(ds[i])>>)>>)
    IN  WithChildren(Named(KdlNode("pane_template"), name),
                     <<PaneNode>> \o [i \in 1..Len(ds) |-> Invocation(i)])

\* layouts of pane templates invoking one another, acyclic or not, some names
\* left undefined, closed by one invocation of the first template
DependencyDocs ==
    {LayoutDoc((IF rev THEN Reverse(defs) ELSE defs) \o <<KdlNode(defs[1].props["name"].s)>>) :
        defs \in UNION {
            {[i \in 1..Len(InOrder(D)) |-> DependentTemplate(InOrder(D)[i], f[InOrder(D)[i]])] :
                f \in [D -> {ds \in SUBSET TemplateNames : Cardinality(ds) <= MaxDeps}]} :
            D \in SUBSET TemplateNames \ {{}}},
        rev \in BOOLEAN}

\* what the body of a pane (template) and of a tab template is drawn from
PaneBodyNodes ==
    {PaneNode, ChildrenNode, WithChildren(PaneNode, <<ChildrenNode>>),
     WithArg(KdlNode("split_direction"), StringValue("vertical"))}
TabBodyNodes ==
    {PaneNode, ChildrenNode, WithChildren(PaneNode, <<ChildrenNode>>),
     KdlNode("floating_panes")}

\* a node with that body, or without a block when there is none
WithBody(node, body) == IF IsSome(body) THEN WithChildren(node, Unwrap(body)) ELSE node
Bodies(S, n) == {None} \cup {Some(b) : b \in SeqsUpTo(S, n)}

\* what the consumer of a template nests: nothing, an empty block, or panes p1..pk
ConsumerBodies ==
    {None} \cup {Some([i \in 1..k |-> Named(PaneNode, NameOrder[i])]) :
                    k \in 0..MaxConsumerPanes}

\* a template with a body, consumed once at the top of the layout
SpliceDocs ==
    {LayoutDoc(<<WithBody(Named(KdlNode("pane_template"), "t"), body),
                 WithBody(KdlNode("t"), consumer)>>) :
        body \in Bodies(PaneBodyNodes, MaxBody), consumer \in ConsumerBodies}
    \cup
    {LayoutDoc(<<WithBody(Named(KdlNode("tab_template"), "tt"), body),
                 WithBody(KdlNode("tt"), consumer)>>) :
        body \in Bodies(TabBodyNodes, MaxBody), consumer \in ConsumerBodies}
    \cup
    {LayoutDoc(<<WithBody(KdlNode("default_tab_template"), body),
                 WithBody(KdlNode("tab"), consumer)>>) :
        body \in Bodies(TabBodyNodes, MaxBody), consumer \in ConsumerBodies}
    \cup
    {LayoutDoc(<<WithBody(PaneNode, body)>>) : body \in Bodies(PaneBodyNodes, MaxBody)}


\* layouts with a cwd, tabs, floating panes, swap layouts and run actions, and
\* documents without exactly one layout node
CommandPane(command) == WithArg(WithProp(PaneNode, "command", StringValue(command)),
                                StringValue("ignored"))
TabNode(name, focus, children) ==
    WithChildren(WithProp(Named(KdlNode("tab"), name), "focus", BoolValue(focus)), children)
MiscDocs ==
    {<<PaneNode>>,
     <<KdlNode("layout")>>,
     LayoutDoc(<<>>) \o LayoutDoc(<<>>),
     LayoutDoc(<<PaneNode, KdlNode("tab")>>),
     LayoutDoc(<<KdlNode("tab"), PaneNode>>),
     LayoutDoc(<<KdlNode("nonsense")>>),
     <<WithProp(LayoutDoc(<<WithProp(PaneNode, "cwd", StringValue("src/main.rs")),
                            WithChildren(KdlNode("floating_panes"), <<PaneNode>>)>>)[1],
                "cwd", StringValue("/home/user"))>>,
     <<WithProp(LayoutDoc(<<PaneNode>>)[1], "cwd", IntValue(1))>>,
     LayoutDoc(<<TabNode("one", TRUE, <<PaneNode>>), TabNode("two", TRUE, <<PaneNode>>)>>),
     LayoutDoc(<<TabNode("one", FALSE, <<PaneNode>>),
                 WithProp(TabNode("two", TRUE, <<PaneNode, PaneNode>>),
                          "cwd", StringValue("/tmp"))>>),
     LayoutDoc(<<WithChildren(KdlNode("swap_tiled_layout"),
                     <<WithProp(TabNode("s", FALSE, <<PaneNode, ChildrenNode>>),
                                "max_panes", IntValue(2)),
                       WithProp(KdlNode("tab"), "min_panes", StringValue("2"))>>),
                 PaneNode>>),
     LayoutDoc(<<WithChildren(KdlNode("swap_tiled_layout"),
                     <<WithProp(TabNode("s", FALSE, <<PaneNode, ChildrenNode>>),
                                "max_panes", IntValue(2))>>),
                 WithChildren(KdlNode("swap_floating_layout"),
                     <<WithProp(WithChildren(KdlNode("floating_panes"), <<PaneNode>>),
                                "min_panes", IntValue(1))>>),
                 PaneNode>>),
     LayoutDoc(<<WithProp(Named(KdlNode("pane_template"), "f"), "x", IntValue(1)),
                 KdlNode("f")>>),
     LayoutDoc(<<Named(KdlNode("pane_template"), "a"), Named(KdlNode("pane_template"), "a")>>),
     LayoutDoc(<<KdlNode("pane_template")>>)}

\* what stands at the top of a layout: a tab, the invocation of a tab
\* template, a pane, the invocation of a pane template, a floating_panes block
TabItems == {KdlNode("tab"), KdlNode("tt")}
PaneItems == {PaneNode, KdlNode("t"), WithChildren(KdlNode("floating_panes"), <<PaneNode>>)}

TopDefinitions ==
    <<WithChildren(Named(KdlNode("tab_template"), "tt"), <<PaneNode>>),
      Named(KdlNode("pane_template"), "t")>>

\* layout { tab_template name="tt" { pane }; pane_template name="t"; <item>; <item> }
TabsAndPanesDocs ==
    {LayoutDoc(TopDefinitions \o items) :
        items \in [1..2 -> TabItems \cup PaneItems] \cup [1..1 -> TabItems \cup PaneItems]}

MaxTabs == 3            \* most tabs at the top of a layout

\* a bare focus, focus=true or focus=false on a tab or on the invocation of a
\* tab template
FocusItems ==
    {WithOptionalProp(node, "focus", focus) :
        node \in TabItems, focus \in OptionsOf({BoolValue(TRUE), BoolValue(FALSE)})}

\* layout { tab_template name="tt" { pane }; pane_template name="t"; <tab>; ..; <tab> }
FocusDocs ==
    {LayoutDoc(TopDefinitions \o tabs) : tabs \in SeqsUpTo(FocusItems, MaxTabs) \ {<<>>}}

\* named panes at the top of a layout, plain or out of the pane template
NamedPanes == {Named(PaneNode, "a"), Named(PaneNode, "b"), Named(KdlNode("t"), "a")}

FloatingPanesBlock == WithChildren(KdlNode("floating_panes"), <<PaneNode>>)
DefaultTabTemplate ==
    WithChildren(KdlNode("default_tab_template"), <<Named(PaneNode, "bar"), ChildrenNode>>)

\* layout { tab_template name="tt" { pane }; pane_template name="t"; <pane>; <pane>;
\*          floating_panes { pane }; default_tab_template { pane name="bar"; children } }
\* with or without the last two
PanesOnlyDocs ==
    {LayoutDoc(TopDefinitions \o panes \o floating \o template) :
        panes \in SeqsUpTo(NamedPanes, 2) \ {<<>>},
        floating \in {<<>>, <<FloatingPanesBlock>>},
        template \in {<<>>, <<DefaultTabTemplate>>}}

\* layout { default_tab_template { <body> } } and
\* layout { default_tab_template { <body> }; pane }
DefaultTemplateDocs ==
    {LayoutDoc(<<WithBody(KdlNode("default_tab_template"), body)>> \o panes) :
        body \in Bodies(TabBodyNodes, MaxBody), panes \in {<<>>, <<PaneNode>>}}

\* layout cwd=.. { tab_template name="tt" { children }; <tab or tt> cwd=.. { pane cwd=.. } }
CwdDocs ==
    {<<WithOptionalProp(
           LayoutDoc(<<WithChildren(Named(KdlNode("tab_template"), "tt"), <<ChildrenNode>>),
                       WithChildren(WithOptionalProp(tab, "cwd", tab_cwd),
                                    <<WithOptionalProp(PaneNode, "cwd", pane_cwd)>>)>>)[1],
           "cwd", layout_cwd)>> :
        layout_cwd \in OptionsOf({StringValue("/home/user")}),
        tab \in TabItems,
        tab_cwd \in OptionsOf({StringValue("proj"), StringValue("/etc/hosts")}),
        pane_cwd \in OptionsOf({StringValue("src/main.rs")})}

\* what a tab holds: tiled panes, plain, out of the pane template and nested,
\* and the panes of its floating_panes block
TiledTabBodies ==
    {<<PaneNode>>, <<KdlNode("t")>>, <<WithChildren(PaneNode, <<PaneNode, KdlNode("t")>>)>>}
FloatingTabBodies == {<<>>, <<PaneNode>>, <<KdlNode("t")>>, <<PaneNode, KdlNode("t")>>}

\* layout cwd=.. { pane_template name="t"; tab_template name="tt" { children };
\*                 <tab or tt> cwd=.. { <tiled panes>; floating_panes { <panes> } } }
TabCwdDocs ==
    {<<WithOptionalProp(
           LayoutDoc(<<Named(KdlNode("pane_template"), "t"),
                       WithChildren(Named(KdlNode("tab_template"), "tt"), <<ChildrenNode>>),
                       WithChildren(WithOptionalProp(tab, "cwd", tab_cwd),
                                    tiled \o (IF floating = <<>> THEN <<>>
                                              ELSE <<WithChildren(KdlNode("floating_panes"),
                                                                  floating)>>))>>)[1],
           "cwd", layout_cwd)>> :
        layout_cwd \in OptionsOf({StringValue("/home/user")}),
        tab \in TabItems,
        tab_cwd \in OptionsOf({StringValue("proj")}),
        tiled \in TiledTabBodies,
        floating \in FloatingTabBodies}

\* min_panes and max_panes as the alternate of a swap layout declares them
ConstraintValues == {IntValue(0), IntValue(2), StringValue("2")}
Constrained(node, min_panes, max_panes) ==
    WithOptionalProp(WithOptionalProp(node, "min_panes", min_panes), "max_panes", max_panes)

\* the alternates of a swap_tiled_layout and of a swap_floating_layout
SwapTiledAlternates == {WithChildren(KdlNode("tab"), <<PaneNode>>), KdlNode("tt")}
SwapFloatingAlternates == {FloatingPanesBlock, KdlNode("tt")}

SwapTabTemplate ==
    WithChildren(Named(KdlNode("tab_template"), "tt"), <<PaneNode, ChildrenNode>>)

\* layout { tab_template name="tt" { pane; children };
\*          swap_tiled_layout { <tab { pane } or tt> min_panes=.. max_panes=.. }; pane }
\* and the same with swap_floating_layout { <floating_panes { pane } or tt> .. }
ConstraintDocs ==
    {LayoutDoc(<<SwapTabTemplate,
                 WithChildren(KdlNode(group[1]),
                              <<Constrained(group[2], min_panes, max_panes)>>),
                 PaneNode>>) :
        group \in {<<"swap_tiled_layout", a>> : a \in SwapTiledAlternates}
                  \cup {<<"swap_floating_layout", a>> : a \in SwapFloatingAlternates},
        min_panes \in OptionsOf(ConstraintValues),
        max_panes \in OptionsOf(ConstraintValues)}

MaxAlternates == 2      \* most alternates in one swap layout declaration
MaxSwapLayouts == 2     \* most swap layout declarations in one layout

\* an alternate holding one pane of that name: a tab, a floating_panes block,
\* or the invocation of the tab template (own = FALSE), with or without max_panes
NamedAlternate(group, own, max_panes, name) ==
    WithOptionalProp(
        IF group = "swap_tiled_layout"
        THEN WithChildren(KdlNode(IF own THEN "tab" ELSE "tt"), <<Named(PaneNode, name)>>)
        ELSE IF own THEN WithChildren(KdlNode("floating_panes"), <<Named(PaneNode, name)>>)
        ELSE WithChildren(KdlNode("tt"),
                          <<WithChildren(KdlNode("floating_panes"), <<Named(PaneNode, name)>>)>>),
        "max_panes", max_panes)

AlternateShapes == BOOLEAN \X OptionsOf({IntValue(2)})

\* the d-th declaration of the layout: a group of alternates, or the bare node
SwapDeclaration(d, group, shapes) ==
    IF Len(shapes) = 0 THEN KdlNode(group)
    ELSE WithChildren(KdlNode(group),
             [j \in 1..Len(shapes) |->
                 NamedAlternate(group, shapes[j][1], shapes[j][2],
                                NameOrder[MaxAlternates * (d - 1) + j])])

SwapGroupKinds == {"swap_tiled_layout", "swap_floating_layout"}

\* layout { tab_template name="tt" { pane; children };
\*          swap_.._layout { <alternate>; .. }; swap_.._layout { .. }; pane }
\* one declaration of up to MaxAlternates alternates, or up to MaxSwapLayouts
\* declarations of at most one alternate
SwapGroupsDocs ==
    {LayoutDoc(<<SwapTabTemplate, SwapDeclaration(1, group, shapes), PaneNode>>) :
        group \in SwapGroupKinds, shapes \in [1..MaxAlternates -> AlternateShapes]}
    \cup
    {LayoutDoc(<<SwapTabTemplate>>
               \o [d \in 1..Len(declarations) |->
                      SwapDeclaration(d, declarations[d][1], declarations[d][2])]
               \o <<PaneNode>>) :
        declarations \in SeqsUpTo(SwapGroupKinds \X SeqsUpTo(AlternateShapes, 1),
                                  MaxSwapLayouts) \ {<<>>}}

MaxDefinitions == 3     \* most template definitions in one layout

\* the i-th definition of the layout: a pane or tab template of that name,
\* holding a pane that tells the definitions apart
DefinitionAt(i, kind, name) ==
    WithChildren(Named(KdlNode(kind), name), <<Named(PaneNode, NameOrder[i])>>)

\* layout { <pane_template or tab_template> name=<a or b> { pane name=.. }; ..; pane }
DefinitionsDocs ==
    {LayoutDoc([i \in 1..Len(definitions) |->
                   DefinitionAt(i, definitions[i][1], definitions[i][2])] \o <<PaneNode>>) :
        definitions \in SeqsUpTo({"pane_template", "tab_template"} \X {"a", "b"},
                                 MaxDefinitions) \ {<<>>}}

\* a parser as KdlLayoutParser::new builds it
Parser(document, cwd) == [raw_layout |-> document, global_cwd |-> cwd]
Parsers ==
    {Parser(d, None) : d \in DependencyDocs \cup SpliceDocs \cup TabsAndPanesDocs
                                              \cup FocusDocs \cup PanesOnlyDocs
                                              \cup DefaultTemplateDocs \cup TabCwdDocs
                                              \cup ConstraintDocs \cup SwapGroupsDocs
                                              \cup DefinitionsDocs}
    \cup {Parser(d, cwd) : d \in MiscDocs \cup CwdDocs,
                            cwd \in {None, Some(PathBufFrom("/tmp"))}}

----------------------------------------------------------------------------
(* The documents that define one pane template and consume it once *)

\* the run action a node declares: none, a cwd, an edit, a command, a plugin
RunKinds == {"none", "cwd", "edit", "command", "plugin"}
BareAttributes == {"args", "close_on_exit", "start_suspended"}

\* the args child node: args "-d"
ArgsNode(args) ==
    [KdlNode("args") EXCEPT !.entries = [i \in 1..Len(args) |-> StringValue(args[i])]]

PluginNode == WithProp(KdlNode("plugin"), "location", StringValue("zellij:tab-bar"))
AddChild(node, child) == WithChildren(node, Append(node.children, child))

WithRunKind(node, kind) ==
    CASE kind = "cwd" -> WithProp(node, "cwd", StringValue("/tmp"))
      [] kind = "edit" -> WithProp(node, "edit", StringValue("/etc/hosts"))
      [] kind = "command" -> WithProp(node, "command", StringValue("htop"))
      [] kind = "plugin" -> AddChild(node, PluginNode)
      [] OTHER -> node

\* the node with the bare attributes of the set declared on it
WithBare(node, bare) ==
    With(IF "close_on_exit" \in bare
         THEN WithProp(node, "close_on_exit", BoolValue(TRUE)) ELSE node, LAMBDA n1 :
    With(IF "start_suspended" \in bare
         THEN WithProp(n1, "start_suspended", BoolValue(TRUE)) ELSE n1, LAMBDA n2 :
    IF "args" \in bare THEN AddChild(n2, ArgsNode(<<"-d">>)) ELSE n2))

TemplateDefinition == Named(KdlNode("pane_template"), "t")

\* the consumer at the top of the layout, or inside a floating_panes block
Placed(consumer, floating) ==
    IF floating THEN WithChildren(KdlNode("floating_panes"), <<consumer>>) ELSE consumer

\* layout { pane_template name="t" <run>; t <run> <bare attributes> }
RunDocs ==
    {LayoutDoc(<<WithRunKind(TemplateDefinition, template_kind),
                 Placed(WithBare(WithRunKind(KdlNode("t"), consumer_kind), bare), floating)>>) :
        template_kind \in RunKinds, consumer_kind \in RunKinds,
        bare \in SUBSET BareAttributes, floating \in BOOLEAN}

\* the node with the declarations of d: a function from property names to
\* optional KDL values
RECURSIVE WithDeclared(_, _, _)
WithDeclared(node, d, keys) ==
    IF keys = {} THEN node
    ELSE With(CHOOSE k \in keys : TRUE, LAMBDA k :
             WithDeclared(WithOptionalProp(node, k, d[k]), d, keys \ {k}))
Declaring(node, d) == WithDeclared(node, d, DOMAIN d)

\* what the definition and the consumer of a tiled pane template declare
TiledTemplateDeclarations ==
    [borderless : OptionsOf({BoolValue(TRUE), BoolValue(FALSE)}),
     focus : OptionsOf({BoolValue(TRUE)}),
     size : OptionsOf({StringValue("50%")})]
TiledConsumerDeclarations ==
    [borderless : OptionsOf({BoolValue(TRUE), BoolValue(FALSE)}),
     focus : OptionsOf({BoolValue(FALSE)}),
     name : OptionsOf({StringValue("editor")}),
     size : OptionsOf({IntValue(30)})]

\* what the definition and the consumer of a floating pane template declare
FloatingTemplateDeclarations ==
    [focus : OptionsOf({BoolValue(TRUE)}),
     x : OptionsOf({IntValue(1)}), y : OptionsOf({IntValue(2)}),
     width : OptionsOf({IntValue(3)}), height : OptionsOf({IntValue(4)})]
FloatingConsumerDeclarations ==
    [focus : OptionsOf({BoolValue(FALSE)}),
     name : OptionsOf({StringValue("editor")}),
     x : OptionsOf({StringValue("50%")}), y : OptionsOf({StringValue("100%")}),
     width : OptionsOf({StringValue("50%")}), height : OptionsOf({StringValue("100%")})]

\* layout { pane_template name="t" <attributes>; t <attributes> }, and the same
\* with the consumer inside floating_panes
AttributeDocs ==
    {LayoutDoc(<<Declaring(TemplateDefinition, template), Declaring(KdlNode("t"), consumer)>>) :
        template \in TiledTemplateDeclarations, consumer \in TiledConsumerDeclarations}
    \cup
    {LayoutDoc(<<Declaring(TemplateDefinition, template),
                 Placed(Declaring(KdlNode("t"), consumer), TRUE)>>) :
        template \in FloatingTemplateDeclarations, consumer \in FloatingConsumerDeclarations}

\* the evidence a definition gives of being tiled or floating
TiledProperties == {"borderless", "size", "split_direction"}
TiledNodes == {"pane", "children", "u"}
FloatingProperties == {"x", "y", "width", "height"}

EvidenceValue(key) ==
    CASE key = "borderless" -> BoolValue(TRUE)
      [] key = "split_direction" -> StringValue("vertical")
      [] OTHER -> IntValue(10)

RECURSIVE WithEvidence(_, _)
WithEvidence(node, keys) ==
    IF keys = {} THEN node
    ELSE With(CHOOSE k \in keys : TRUE, LAMBDA k :
             WithEvidence(WithProp(node, k, EvidenceValue(k)), keys \ {k}))

\* layout { pane_template name="t" <properties> { <nodes> }; pane_template name="u" }
ClassificationDocs ==
    {LayoutDoc(<<WithBody(WithEvidence(TemplateDefinition, properties),
                          IF nodes = {} THEN None
                          ELSE Some(SelectSeq(<<PaneNode, ChildrenNode, KdlNode("u")>>,
                                              LAMBDA n : n.name \in nodes))),
                 Named(KdlNode("pane_template"), "u")>>) :
        properties \in SUBSET (TiledProperties \cup FloatingProperties),
        nodes \in SUBSET TiledNodes}

\* where a template is invoked: at the top of the layout, in a pane, in a tab,
\* in the floating_panes of the layout or of a tab
Places == {"layout", "pane", "tab", "floating_panes", "tab_floating_panes"}
PlacedIn(consumer, place) ==
    CASE place = "pane" -> WithChildren(PaneNode, <<consumer>>)
      [] place = "tab" -> WithChildren(KdlNode("tab"), <<consumer>>)
      [] place = "floating_panes" -> Placed(consumer, TRUE)
      [] place = "tab_floating_panes" ->
             WithChildren(KdlNode("tab"), <<Placed(consumer, TRUE)>>)
      [] OTHER -> consumer

\* layout { pane_template name="t" <properties> { <nodes> }; <place> { t } }
PlacementDocs ==
    {LayoutDoc(<<WithBody(WithEvidence(TemplateDefinition, properties), body),
                 PlacedIn(KdlNode("t"), place)>>) :
        properties \in {{}, {"x"}, {"width", "height"}, {"borderless"}, {"split_direction"}},
        body \in {None, Some(<<PaneNode>>)},
        place \in Places}

\* a property a node declares on itself, and a node it nests
OwnProperties == {"borderless", "cwd", "edit", "command", "plugin"}
NestedNodes == {PaneNode, KdlNode("tab"), KdlNode("u"), ChildrenNode}

WithOwnProperty(node, property) ==
    IF property = "borderless" THEN WithProp(node, "borderless", BoolValue(TRUE))
    ELSE WithRunKind(node, property)

\* the node that declares the property and nests the node: a plain pane, the
\* definition of a pane template, or the node consuming one
MixedNode(role, property, nested) ==
    AddChild(WithOwnProperty(CASE role = "pane" -> PaneNode
                               [] role = "pane_template" -> TemplateDefinition
                               [] OTHER -> KdlNode("t"),
                             property),
             nested)

\* layout { pane_template name="t" { children }; <pane or t> <property> { <nested> };
\*          pane_template name="u" }, and
\* layout { pane_template name="t" <property> { <nested> }; pane; pane_template name="u" }
MixedDocs ==
    {LayoutDoc(IF role = "pane_template"
               THEN <<MixedNode(role, property, nested), PaneNode,
                      Named(KdlNode("pane_template"), "u")>>
               ELSE <<WithChildren(TemplateDefinition, <<ChildrenNode>>),
                      MixedNode(role, property, nested),
                      Named(KdlNode("pane_template"), "u")>>) :
        role \in {"pane", "pane_template", "consumer"},
        property \in OwnProperties, nested \in NestedNodes}

TemplateDocs ==
    RunDocs \cup AttributeDocs \cup ClassificationDocs \cup PlacementDocs \cup MixedDocs

TemplateParsers == {Parser(d, None) : d \in TemplateDocs}

----------------------------------------------------------------------------
(* parse(), step by step *)

This ==
    [global_cwd |-> global_cwd, pane_templates |-> pane_templates,
     tab_templates |-> tab_templates, default_tab_template |-> default_tab_template]

LayoutNodes == SelectSeq(raw_layout, LAMBDA n : kdl_name(n) = "layout")
layout_node == LayoutNodes[1]
layout_children == layout_node.children

NoResult == [ok |-> FALSE, err |-> "", v |-> None]
Idle == [kind |-> "none"]

\* a parser of the set, before parse() is called on it
Start(parsers) ==
    /\ \E p \in parsers : raw_layout = p.raw_layout /\ global_cwd = p.global_cwd
    /\ tab_templates = EmptyMap
    /\ pane_templates = EmptyMap
    /\ default_tab_template = None
    /\ pc = "parse"
    /\ pane_template_dependency_tree = EmptyMap
    /\ pane_template_names_to_parse = <<>>
    /\ child_tabs = <<>>
    /\ child_panes = <<>>
    /\ child_floating_panes = <<>>
    /\ swap_tiled_layouts = <<>>
    /\ swap_floating_layouts = <<>>
    /\ next_name = 0
    /\ next_child = 0
    /\ result = NoResult
    /\ returned = <<>>
    /\ cmd_input = Idle
    /\ cmd_output = NoResult

Init == Start(Parsers)
InitTemplates == Start(TemplateParsers)

\* return Err(..) out of parse()
Fail(r) == pc' = "done" /\ result' = [ok |-> FALSE, err |-> r.err, v |-> None]

\* parse(): finding the layout node
FindLayoutNode ==
    /\ pc = "parse"
    /\ IF Len(LayoutNodes) = 0 THEN Fail(Err("No layout found"))
       ELSE IF Len(LayoutNodes) > 1 THEN Fail(Err("Only one layout node per file allowed"))
       ELSE /\ pc' = IF IsSome(kdl_children_nodes(layout_node))
                     THEN "populate_global_cwd" ELSE "finish"
            /\ UNCHANGED result
    /\ UNCHANGED <<returned, raw_layout, global_cwd, tab_templates, pane_templates,
                   default_tab_template, pane_template_dependency_tree,
                   pane_template_names_to_parse, child_tabs, child_panes,
                   child_floating_panes, swap_tiled_layouts, swap_floating_layouts,
                   next_name, next_child, cmd_input, cmd_output>>

PopulateGlobalCwd ==
    /\ pc = "populate_global_cwd"
    /\ LET Step(r) ==
           IF ~r.ok THEN Fail(r) /\ UNCHANGED global_cwd
           ELSE global_cwd' = r.v /\ pc' = "get_pane_template_dependency_tree"
                /\ UNCHANGED result
       IN  Step(populate_global_cwd(This, layout_node))
    /\ UNCHANGED <<returned, raw_layout, tab_templates, pane_templates,
                   default_tab_template, pane_template_dependency_tree,
                   pane_template_names_to_parse, child_tabs, child_panes,
                   child_floating_panes, swap_tiled_layouts, swap_floating_layouts,
                   next_name, next_child, cmd_input, cmd_output>>

\* populate_pane_templates: building the dependency tree
GetPaneTemplateDependencyTree ==
    /\ pc = "get_pane_template_dependency_tree"
    /\ LET Step(r) ==
           IF ~r.ok THEN Fail(r) /\ UNCHANGED pane_template_dependency_tree
           ELSE /\ pane_template_dependency_tree' = r.v
                /\ pc' = IF DOMAIN r.v = {} THEN "populate_tab_templates" ELSE "toposort"
                /\ UNCHANGED result
       IN  Step(get_pane_template_dependency_tree(layout_children))
    /\ UNCHANGED <<returned, raw_layout, global_cwd, tab_templates, pane_templates,
                   default_tab_template, pane_template_names_to_parse, child_tabs,
                   child_panes, child_floating_panes, swap_tiled_layouts,
                   swap_floating_layouts, next_name, next_child, cmd_input, cmd_output>>

\* populate_pane_templates: one round of the while loop
ToposortRound ==
    /\ pc = "toposort"
    /\ LET candidates == Candidates(pane_template_dependency_tree)
       IN  IF candidates = {}
           THEN /\ Fail(Err("Circular dependency detected between pane templates."))
                /\ UNCHANGED <<pane_template_dependency_tree, pane_template_names_to_parse>>
           ELSE /\ \E order \in Orderings(candidates) :
                       pane_template_names_to_parse' = pane_template_names_to_parse \o order
                /\ pane_template_dependency_tree' =
                       RemoveCandidates(pane_template_dependency_tree, candidates)
                /\ pc' = IF DOMAIN pane_template_dependency_tree' = {}
                         THEN "parse_pane_templates" ELSE "toposort"
                /\ UNCHANGED result
    /\ UNCHANGED <<returned, raw_layout, global_cwd, tab_templates, pane_templates,
                   default_tab_template, child_tabs, child_panes, child_floating_panes,
                   swap_tiled_layouts, swap_floating_layouts, next_name, next_child,
                   cmd_input, cmd_output>>

\* populate_pane_templates: parsing the next name of the sorted list
ParsePaneTemplateByName ==
    /\ pc = "parse_pane_templates"
    /\ LET Step(r) ==
           IF ~r.ok THEN Fail(r) /\ pane_templates' = r.v /\ UNCHANGED next_name
           ELSE /\ pane_templates' = r.v
                /\ next_name' = next_name + 1
                /\ pc' = IF next_name' = Len(pane_template_names_to_parse)
                         THEN "populate_tab_templates" ELSE "parse_pane_templates"
                /\ UNCHANGED result
       IN  Step(parse_pane_template_by_name( This, pane_template_names_to_parse[next_name + 1], layout_children))
    /\ UNCHANGED <<returned, raw_layout, global_cwd, tab_templates, default_tab_template,
                   pane_template_dependency_tree, pane_template_names_to_parse, child_tabs,
                   child_panes, child_floating_panes, swap_tiled_layouts,
                   swap_floating_layouts, next_child, cmd_input, cmd_output>>


PopulateTabTemplates ==
    /\ pc = "populate_tab_templates"
    /\ LET Step(r) ==
           /\ tab_templates' = r.v.tab_templates
           /\ default_tab_template' = r.v.default_tab_template
           /\ IF ~r.ok THEN Fail(r)
              ELSE pc' = "populate_swap_tiled_layouts" /\ UNCHANGED result
       IN  Step(populate_tab_templates(This, layout_children))
    /\ UNCHANGED <<returned, raw_layout, global_cwd, pane_templates, pane_template_dependency_tree,
                   pane_template_names_to_parse, child_tabs, child_panes,
                   child_floating_panes, swap_tiled_layouts, swap_floating_layouts,
                   next_name, next_child, cmd_input, cmd_output>>

PopulateSwapTiledLayouts ==
    /\ pc = "populate_swap_tiled_layouts"
    /\ LET Step(r) ==
           IF ~r.ok THEN Fail(r) /\ UNCHANGED swap_tiled_layouts
           ELSE /\ swap_tiled_layouts' = r.v
                /\ pc' = "populate_swap_floating_layouts"
                /\ UNCHANGED result
       IN  Step(populate_swap_tiled_layouts(This, layout_children))
    /\ UNCHANGED <<returned, raw_layout, global_cwd, tab_templates, pane_templates,
                   default_tab_template, pane_template_dependency_tree,
                   pane_template_names_to_parse, child_tabs, child_panes,
                   child_floating_panes, swap_floating_layouts, next_name, next_child,
                   cmd_input, cmd_output>>

PopulateSwapFloatingLayouts ==
    /\ pc = "populate_swap_floating_layouts"
    /\ LET Step(r) ==
           IF ~r.ok THEN Fail(r) /\ UNCHANGED swap_floating_layouts
           ELSE /\ swap_floating_layouts' = r.v
                /\ pc' = IF Len(layout_children) = 0 THEN "finish"
                         ELSE "populate_layout_child"
                /\ UNCHANGED result
       IN  Step(populate_swap_floating_layouts(This, layout_children))
    /\ UNCHANGED <<returned, raw_layout, global_cwd, tab_templates, pane_templates,
                   default_tab_template, pane_template_dependency_tree,
                   pane_template_names_to_parse, child_tabs, child_panes,
                   child_floating_panes, swap_tiled_layouts, next_name, next_child,
                   cmd_input, cmd_output>>

\* parse(): populate_layout_child on the next child of the layout node
PopulateLayoutChild ==
    /\ pc = "populate_layout_child"
    /\ LET Step(r) ==
           IF ~r.ok
           THEN Fail(r) /\ UNCHANGED <<child_tabs, child_panes, child_floating_panes,
                                       next_child>>
           ELSE /\ child_tabs' = r.v.child_tabs
                /\ child_panes' = r.v.child_panes
                /\ child_floating_panes' = r.v.child_floating_panes
                /\ next_child' = next_child + 1
                /\ pc' = IF next_child' = Len(layout_children) THEN "finish"
                         ELSE "populate_layout_child"
                /\ UNCHANGED result
       IN  Step(populate_layout_child(This, layout_children[next_child + 1], child_tabs, child_panes, child_floating_panes))
    /\ UNCHANGED <<returned, raw_layout, global_cwd, tab_templates, pane_templates,
                   default_tab_template, pane_template_dependency_tree,
                   pane_template_names_to_parse, swap_tiled_layouts,
                   swap_floating_layouts, next_name, cmd_input, cmd_output>>

\* parse(): choosing the shape of the Layout and returning it
Finish ==
    /\ pc = "finish"
    /\ pc' = "done"
    /\ result' = FinishParse(This, child_tabs, child_panes, child_floating_panes,
                             swap_tiled_layouts, swap_floating_layouts)
    /\ UNCHANGED <<returned, raw_layout, global_cwd, tab_templates, pane_templates,
                   default_tab_template, pane_template_dependency_tree,
                   pane_template_names_to_parse, child_tabs, child_panes,
                   child_floating_panes, swap_tiled_layouts, swap_floating_layouts,
                   next_name, next_child, cmd_input, cmd_output>>

Next ==
    \/ FindLayoutNode
    \/ PopulateGlobalCwd
    \/ GetPaneTemplateDependencyTree
    \/ ToposortRound
    \/ ParsePaneTemplateByName
    \/ PopulateTabTemplates
    \/ PopulateSwapTiledLayouts
    \/ PopulateSwapFloatingLayouts
    \/ PopulateLayoutChild
    \/ Finish

Spec == Init /\ [][Next]_vars

\* parse() on the documents that define one pane template and consume it
SpecTemplates == InitTemplates /\ [][Next]_vars

\* parse() on the layouts of pane templates invoking one another; the while
\* loop of populate_pane_templates is sequential code, so a round that can
\* be taken is taken
ToposortParsers == {Parser(d, None) : d \in DependencyDocs}
InitToposort == Start(ToposortParsers)
SpecToposort == InitToposort /\ [][Next]_vars /\ WF_vars(ToposortRound)

\* the definitions of a layout: pane_template name="t" { pane name="a"; children }
\* and tab_template name="tt" { t; children }
PlacedPaneTemplate ==
    WithChildren(Named(KdlNode("pane_template"), "t"), <<Named(PaneNode, "a"), ChildrenNode>>)
PlacedTabTemplate ==
    WithChildren(Named(KdlNode("tab_template"), "tt"), <<KdlNode("t"), ChildrenNode>>)

\* the nodes that invoke them: a swap layout, and the panes or tabs of the layout
PlacedSwapLayouts ==
    {{},
     {WithChildren(KdlNode("swap_tiled_layout"),
                   <<WithChildren(KdlNode("tt"), <<KdlNode("t")>>)>>)},
     {WithChildren(KdlNode("swap_floating_layout"),
                   <<WithChildren(KdlNode("floating_panes"), <<KdlNode("t")>>)>>)}}
PlacedConsumers ==
    {{KdlNode("t")},
     {WithChildren(PaneNode, <<KdlNode("t")>>)},
     {WithChildren(KdlNode("tt"), <<KdlNode("t")>>)},
     {WithChildren(KdlNode("tab"), <<KdlNode("t")>>)},
     {KdlNode("tt"), WithChildren(KdlNode("tab"), <<KdlNode("t")>>)},
     {DefaultTabTemplate, WithChildren(KdlNode("tab"), <<KdlNode("t")>>)}}

\* layout { <the two definitions, a swap layout or none, the consumers> }
\* with the children in every order
AnywhereDocs ==
    {LayoutDoc(children) :
        children \in UNION {Orderings({PlacedPaneTemplate, PlacedTabTemplate}
                                      \cup swap \cup consumers) :
                               swap \in PlacedSwapLayouts, consumers \in PlacedConsumers}}

AnywhereParsers == {Parser(d, None) : d \in AnywhereDocs}
InitAnywhere == Start(AnywhereParsers)
SpecAnywhere == InitAnywhere /\ [][Next]_vars

MaxCalls == 2           \* most calls of parse() on one parser

\* the parsers parse() is called on more than once
AgainParsers ==
    {Parser(d, None) : d \in DefinitionsDocs \cup TabsAndPanesDocs \cup CwdDocs}
InitAgain == Start(AgainParsers)

\* parse() is called again on the parser it returned from: the locals of
\* parse() start anew, the fields of the parser are what the last call left
ParseAgain ==
    /\ pc = "done"
    /\ Len(returned) + 1 < MaxCalls
    /\ returned' = Append(returned, result)
    /\ pc' = "parse"
    /\ pane_template_dependency_tree' = EmptyMap
    /\ pane_template_names_to_parse' = <<>>
    /\ child_tabs' = <<>>
    /\ child_panes' = <<>>
    /\ child_floating_panes' = <<>>
    /\ swap_tiled_layouts' = <<>>
    /\ swap_floating_layouts' = <<>>
    /\ next_name' = 0
    /\ next_child' = 0
    /\ result' = NoResult
    /\ UNCHANGED <<raw_layout, global_cwd, tab_templates, pane_templates,
                   default_tab_template, cmd_input, cmd_output>>

NextAgain ==
    \/ FindLayoutNode
    \/ PopulateGlobalCwd
    \/ GetPaneTemplateDependencyTree
    \/ ToposortRound
    \/ ParsePaneTemplateByName
    \/ PopulateTabTemplates
    \/ PopulateSwapTiledLayouts
    \/ PopulateSwapFloatingLayouts
    \/ PopulateLayoutChild
    \/ Finish
    \/ ParseAgain

\* parse() called up to MaxCalls times on one parser
SpecAgain == InitAgain /\ [][NextAgain]_vars

----------------------------------------------------------------------------
(* parse_pane_command, and the node parsers that reach it, on one node *)

WithOptionalArgs(node, args) ==
    IF IsSome(args) THEN WithChildren(node, <<ArgsNode(Unwrap(args))>>) ELSE node

StringOption(value) == IF IsSome(value) THEN Some(StringValue(Unwrap(value))) ELSE None
BoolOption(value) == IF IsSome(value) THEN Some(BoolValue(Unwrap(value))) ELSE None

\* <name> command=.. edit=.. cwd=.. close_on_exit=.. start_suspended=.. { args .. }
AttributeNode(node, a) ==
    WithOptionalArgs(
        WithOptionalProp(
            WithOptionalProp(
                WithOptionalProp(
                    WithOptionalProp(
                        WithOptionalProp(node, "command", StringOption(a.command)),
                        "edit", StringOption(a.edit)),
                    "cwd", StringOption(a.cwd)),
                "close_on_exit", BoolOption(a.close_on_exit)),
            "start_suspended", BoolOption(a.start_suspended)),
        a.args)

\* the attributes a node may declare
Attributes ==
    [command : OptionsOf({"htop"}),
     edit : OptionsOf({"src/main.rs", "/etc/hosts"}),
     cwd : OptionsOf({"/tmp"}),
     args : OptionsOf({<<"-d">>}),
     close_on_exit : OptionsOf(BOOLEAN),
     start_suspended : OptionsOf(BOOLEAN)]

\* the same declarations written with a value of the wrong type, or with an
\* empty args node
IllTyped(node, a) ==
    {WithProp(node, "close_on_exit", StringValue("true"))
         : x \in {a.close_on_exit} \ {None}}
    \cup {WithProp(node, "start_suspended", IntValue(1))
              : x \in {a.start_suspended} \ {None}}
    \cup {WithChildren(node, <<KdlNode("args")>>) : x \in {a.args} \ {None}}

CmdInput(context, is_template, node, a, well_typed) ==
    [context |-> context, is_template |-> is_template, node |-> node, declared |-> a,
     well_typed |-> well_typed]

\* where the node stands: handed to parse_pane_command itself, or a pane, a
\* floating pane, or a pane_template definition
ContextNode(context) ==
    IF context = "pane_template" THEN Named(KdlNode("pane_template"), "t")
    ELSE KdlNode("pane")

CmdInputs ==
    {CmdInput("parse_pane_command", is_template, AttributeNode(KdlNode("pane"), a), a, TRUE)
         : is_template \in BOOLEAN, a \in Attributes}
    \cup {CmdInput(context, FALSE, AttributeNode(ContextNode(context), a), a, TRUE)
              : context \in {"pane", "floating_pane", "pane_template"}, a \in Attributes}
    \cup UNION {{CmdInput(context, FALSE, node, a, FALSE)
                     : node \in IllTyped(AttributeNode(ContextNode(context), a), a)}
                : context \in {"parse_pane_command", "pane", "floating_pane"},
                  a \in {b \in Attributes : b.edit = None /\ b.cwd = None}}

\* a node of the set, before it is handed to a method of a new parser
StartCmd(inputs) ==
    /\ raw_layout = <<>>
    /\ global_cwd = None
    /\ tab_templates = EmptyMap
    /\ pane_templates = EmptyMap
    /\ default_tab_template = None
    /\ pc = "cmd"
    /\ pane_template_dependency_tree = EmptyMap
    /\ pane_template_names_to_parse = <<>>
    /\ child_tabs = <<>>
    /\ child_panes = <<>>
    /\ child_floating_panes = <<>>
    /\ swap_tiled_layouts = <<>>
    /\ swap_floating_layouts = <<>>
    /\ next_name = 0
    /\ next_child = 0
    /\ result = NoResult
    /\ returned = <<>>
    /\ cmd_input \in inputs
    /\ cmd_output = NoResult

InitCmd == StartCmd(CmdInputs)

\* the outcome of a call, without the value a successful node parser returns
Outcome(r) == [ok |-> r.ok, err |-> r.err, v |-> None]

\* the method has returned; what it does not write is as it was
CmdReturned ==
    /\ pc' = "cmd_done"
    /\ UNCHANGED <<returned, raw_layout, global_cwd, tab_templates,
                   default_tab_template, pane_template_dependency_tree,
                   pane_template_names_to_parse, child_tabs, child_panes,
                   child_floating_panes, swap_tiled_layouts, swap_floating_layouts,
                   next_name, next_child, result, cmd_input>>

\* the same for a method that takes &self
CmdDone == CmdReturned /\ UNCHANGED pane_templates

CmdParsePaneCommand ==
    /\ pc = "cmd" /\ cmd_input.context = "parse_pane_command"
    /\ cmd_output' = parse_pane_command(cmd_input.node, cmd_input.is_template)
    /\ CmdDone

CmdParsePaneNode ==
    /\ pc = "cmd" /\ cmd_input.context = "pane"
    /\ cmd_output' = Outcome(Call("parse_pane_node", <<This, cmd_input.node>>))
    /\ CmdDone

CmdParseFloatingPaneNode ==
    /\ pc = "cmd" /\ cmd_input.context = "floating_pane"
    /\ cmd_output' = Outcome(Call("parse_floating_pane_node", <<This, cmd_input.node>>))
    /\ CmdDone

CmdParsePaneTemplateNode ==
    /\ pc = "cmd" /\ cmd_input.context = "pane_template"
    /\ LET Step(r) ==
           /\ cmd_output' = Outcome(r)
           /\ pane_templates' = IF r.ok THEN r.v ELSE pane_templates
       IN  Step(parse_pane_template_node(This, cmd_input.node))
    /\ CmdReturned

NextCmd ==
    \/ CmdParsePaneCommand
    \/ CmdParsePaneNode
    \/ CmdParseFloatingPaneNode
    \/ CmdParsePaneTemplateNode

SpecCmd == InitCmd /\ [][NextCmd]_vars

----------------------------------------------------------------------------
(* parse_split_size, parse_percent_or_fixed and parse_constraint on one node *)

MaxInt == 2             \* the largest integer, of either sign, an attribute is given as

\* the values an attribute is declared with
SizeValues ==
    {IntValue(n) : n \in -MaxInt..MaxInt}
    \cup {StringValue(str) : str \in {"0%", "50%", "120%", "half"}}
    \cup {BoolValue(TRUE)}

\* a pane declaring the attribute as a property, as a child node with a
\* value, as a child node without one, or not at all
WaysToDeclare(node, name) ==
    {node, WithChildren(node, <<KdlNode(name)>>)}
    \cup {WithProp(node, name, value) : value \in SizeValues}
    \cup {WithChildren(node, <<WithArg(KdlNode(name), value)>>) : value \in SizeValues}

SizeInput(context, node, value_name, can_be_zero) ==
    [context |-> context, node |-> node, value_name |-> value_name,
     can_be_zero |-> can_be_zero]

\* size through parse_split_size; height, width, x and y through
\* parse_percent_or_fixed as parse_floating_pane_node calls it, on a pane with
\* and without a size; min_panes and max_panes through parse_constraint
SizeInputs ==
    {SizeInput("parse_split_size", node, "size", FALSE) :
        node \in WaysToDeclare(PaneNode, "size")}
    \cup UNION {{SizeInput("parse_percent_or_fixed", node, g[1], g[2]) :
                    node \in WaysToDeclare(PaneNode, g[1])
                             \cup WaysToDeclare(WithProp(PaneNode, "size", IntValue(1)), g[1])} :
                g \in {<<"height", FALSE>>, <<"width", FALSE>>, <<"x", TRUE>>, <<"y", TRUE>>}}
    \cup UNION {{SizeInput("parse_constraint", node, name, TRUE) :
                    node \in WaysToDeclare(KdlNode("tab"), name)} :
                name \in {"min_panes", "max_panes"}}

InitSize == StartCmd(SizeInputs)

CmdParseSplitSize ==
    /\ pc = "cmd" /\ cmd_input.context = "parse_split_size"
    /\ cmd_output' = parse_split_size(cmd_input.node)
    /\ CmdDone

CmdParsePercentOrFixed ==
    /\ pc = "cmd" /\ cmd_input.context = "parse_percent_or_fixed"
    /\ cmd_output' = parse_percent_or_fixed(cmd_input.node, cmd_input.value_name,
                                            cmd_input.can_be_zero)
    /\ CmdDone

CmdParseConstraint ==
    /\ pc = "cmd" /\ cmd_input.context = "parse_constraint"
    /\ cmd_output' = parse_constraint(cmd_input.node)
    /\ CmdDone

NextSize ==
    \/ CmdParseSplitSize
    \/ CmdParsePercentOrFixed
    \/ CmdParseConstraint

SpecSize == InitSize /\ [][NextSize]_vars

----------------------------------------------------------------------------
(* Properties of populate_pane_templates *)

CircularDependency == "Circular dependency detected between pane templates."

\* the pane_template definitions of the document, and their names
Definitions ==
    IF Len(LayoutNodes) = 0 THEN <<>>
    ELSE SelectSeq(layout_children, LAMBDA n : n.name = "pane_template")
IsNamed(definition) ==
    "name" \in DOMAIN definition.props /\ definition.props["name"].kind = "string"
DefinedNames == {Definitions[i].props["name"].s : i \in {j \in 1..Len(Definitions) : IsNamed(Definitions[j])}}

\* the names of all the nodes below a node, at any depth
RECURSIVE NamesBelow(_)
NamesBelow(node) ==
    UNION {{node.children[i].name} \cup NamesBelow(node.children[i]) :
              i \in 1..Len(node.children)}

\* the dependency graph of the document: the templates named below the
\* definition of a template
DependsOn(name) ==
    UNION {NamesBelow(Definitions[i]) \cap DefinedNames :
              i \in {j \in 1..Len(Definitions) :
                        IsNamed(Definitions[j]) /\ Definitions[j].props["name"].s = name}}

\* the templates reached from a set of templates in up to k steps
RECURSIVE ReachedFrom(_, _)
ReachedFrom(names, k) ==
    IF k = 0 THEN names
    ELSE ReachedFrom(names \cup UNION {DependsOn(n) : n \in names}, k - 1)
DependsTransitivelyOn(name) == ReachedFrom(DependsOn(name), Cardinality(DefinedNames))

HasCycle == \E name \in DefinedNames : name \in DependsTransitivelyOn(name)

\* the document gets as far as the toposort: one layout node with a block, a
\* cwd that can be read, and pane templates each with a name of its own
ReachesToposort ==
    /\ Len(LayoutNodes) = 1
    /\ layout_node.has_children
    /\ IsSome(global_cwd)
         \/ kdl_get_string_property_or_child_value_with_error(layout_node, "cwd").ok
    /\ Len(Definitions) > 0
    /\ \A i \in 1..Len(Definitions) : IsNamed(Definitions[i])
    /\ \A i, j \in 1..Len(Definitions) :
           i # j => Definitions[i].props["name"].s # Definitions[j].props["name"].s

\* the definitions are those of DependencyDocs, valid but for what they depend
\* on, and every node they invoke is a defined template
InvokesDefinedTemplatesOnly ==
    /\ raw_layout \in DependencyDocs
    /\ \A i \in 1..Len(Definitions) :
           NamesBelow(Definitions[i]) \ {"pane"} \subseteq DefinedNames

\* C1: a pane template is materialized only when every pane template named
\* below its definition, at any depth, is in the pane_templates registry, and
\* for an acyclic set of definitions populate_pane_templates succeeds: when it
\* is over every defined template is in the registry.
C1_DependenciesMaterializedFirst ==
    /\ pc = "parse_pane_templates" =>
           DependsOn(pane_template_names_to_parse[next_name + 1])
               \subseteq DOMAIN pane_templates
    /\ \A i, j \in 1..Len(pane_template_names_to_parse) :
           pane_template_names_to_parse[i] \in DependsOn(pane_template_names_to_parse[j])
               => i < j
    /\ (InvokesDefinedTemplatesOnly /\ ~HasCycle
           /\ pc \notin {"parse", "populate_global_cwd",
                         "get_pane_template_dependency_tree", "toposort",
                         "parse_pane_templates"})
          => DOMAIN pane_templates = DefinedNames

\* a -> b -> c was sorted and materialized as c, b, a
C1_Witness ==
    /\ pc = "populate_tab_templates"
    /\ DefinedNames = {"a", "b", "c"}
    /\ DependsOn("a") = {"b"} /\ DependsOn("b") = {"c"} /\ DependsOn("c") = {}
    /\ pane_template_names_to_parse = <<"c", "b", "a">>
    /\ DOMAIN pane_templates = {"a", "b", "c"}

\* C2: populate_pane_templates fails with the circular dependency error if
\* and only if the dependency graph of the pane templates has a cycle, a
\* template naming itself below its definition included.
C2_CircularIffCycle ==
    (pc = "done" /\ ReachesToposort) =>
        ((~result.ok /\ result.err = CircularDependency) <=> HasCycle)

\* a template that names itself was rejected as a circular dependency
C2_Witness ==
    /\ pc = "done"
    /\ ReachesToposort
    /\ DefinedNames = {"a"}
    /\ "a" \in DependsOn("a")
    /\ result.err = CircularDependency

----------------------------------------------------------------------------
(* Properties of the children marker *)

\* the document defines one template and then consumes it: the definition, the
\* node consuming it, and the panes that node nests
DefinesAndConsumes(kind) ==
    /\ Len(LayoutNodes) = 1
    /\ Len(layout_children) = 2
    /\ layout_children[1].name = kind
TemplateNode == layout_children[1]
ConsumerNode == layout_children[2]
ConsumesPaneTemplate ==
    DefinesAndConsumes("pane_template") /\ IsNamed(TemplateNode)
        /\ ConsumerNode.name = TemplateNode.props["name"].s
ConsumesTabTemplate ==
    \/ DefinesAndConsumes("tab_template") /\ IsNamed(TemplateNode)
          /\ ConsumerNode.name = TemplateNode.props["name"].s
    \/ DefinesAndConsumes("default_tab_template") /\ ConsumerNode.name = "tab"
SuppliedPanes ==
    IF \A i \in 1..Len(ConsumerNode.children) :
           ConsumerNode.children[i].name = "pane" /\ IsNamed(ConsumerNode.children[i])
    THEN [i \in 1..Len(ConsumerNode.children) |->
             [TiledPaneLayoutDefault EXCEPT
                 !.name = Some(ConsumerNode.children[i].props["name"].s)]]
    ELSE <<>>

\* the children markers written in a template, below its panes at any depth
DirectMarkers(kdl_node) ==
    {i \in 1..Len(kdl_node.children) : kdl_node.children[i].name = "children"}
PaneChildren(kdl_node) == SelectSeq(kdl_node.children, LAMBDA c : c.name = "pane")
RECURSIVE KdlMarkerCount(_)
RECURSIVE KdlMarkerCountFrom(_, _)
KdlMarkerCountFrom(panes, i) ==
    IF i > Len(panes) THEN 0
    ELSE KdlMarkerCount(panes[i]) + KdlMarkerCountFrom(panes, i + 1)
KdlMarkerCount(kdl_node) ==
    Cardinality(DirectMarkers(kdl_node)) + KdlMarkerCountFrom(PaneChildren(kdl_node), 1)

\* the position of the one marker of a node among all the child nodes of its
\* block, and among the panes of its block
MarkerPosition(kdl_node) == (CHOOSE i \in DirectMarkers(kdl_node) : TRUE) - 1
PanesBeforeMarker(kdl_node) ==
    Cardinality({i \in 1..MarkerPosition(kdl_node) : kdl_node.children[i].name = "pane"})

\* a template with one marker: whether the position of the marker among all
\* the child nodes is an insertion position among the panes
RECURSIVE MarkerPositionFits(_)
MarkerPositionFits(kdl_node) ==
    IF DirectMarkers(kdl_node) # {}
    THEN MarkerPosition(kdl_node) <= Len(PaneChildren(kdl_node))
    ELSE \E j \in 1..Len(PaneChildren(kdl_node)) :
             /\ KdlMarkerCount(PaneChildren(kdl_node)[j]) > 0
             /\ MarkerPositionFits(PaneChildren(kdl_node)[j])

\* the tree of a template with one marker, with the panes put where the marker
\* is: as so many children of the node that holds the marker
RECURSIVE MarkerReplacedByPanes(_, _, _)
MarkerReplacedByPanes(kdl_node, layout, panes) ==
    IF DirectMarkers(kdl_node) # {}
    THEN [layout EXCEPT
             !.children = SubSeq(@, 1, PanesBeforeMarker(kdl_node)) \o panes
                              \o SubSeq(@, PanesBeforeMarker(kdl_node) + 1, Len(@)),
             !.external_children_index = None]
    ELSE [layout EXCEPT
             !.children = [j \in 1..Len(@) |->
                              MarkerReplacedByPanes(PaneChildren(kdl_node)[j], @[j], panes)]]

\* the same tree with one layout put at the position of the marker among all
\* the child nodes of its block
RECURSIVE LayoutAtMarkerPosition(_, _, _)
LayoutAtMarkerPosition(kdl_node, layout, inserted) ==
    IF DirectMarkers(kdl_node) # {}
    THEN [layout EXCEPT
             !.children = InsertAt(@, MarkerPosition(kdl_node), inserted),
             !.external_children_index = None]
    ELSE [layout EXCEPT
             !.children = [j \in 1..Len(@) |->
                              LayoutAtMarkerPosition(PaneChildren(kdl_node)[j], @[j], inserted)]]

\* the pane template as registered, and the pane its consumer resolved to
RegisteredPaneTemplate == pane_templates[TemplateNode.props["name"].s].template.tiled
PaneResolved == pc = "done" /\ result.ok /\ Len(child_panes) = 1

\* C3: a pane template with one children marker, consumed with k >= 1 nested
\* panes, resolves to the template's tree with those k panes themselves in
\* the children sequence, where the marker was.
C3_MarkerReplacedByTheNodes ==
    (pc = "done" /\ ConsumesPaneTemplate /\ KdlMarkerCount(TemplateNode) = 1
        /\ Len(SuppliedPanes) >= 1)
    => /\ PaneResolved
       /\ child_panes[1] =
              MarkerReplacedByPanes(TemplateNode, RegisteredPaneTemplate, SuppliedPanes)

\* what the parser does instead: the k panes become the children of ONE
\* layout, and that layout is inserted at the index recorded for the marker,
\* its position among all the child nodes of its block and not among the
\* panes; where that index is past the panes of the block the insertion
\* panics
OneLayoutAtTheRecordedIndex ==
    (pc = "done" /\ ConsumesPaneTemplate /\ KdlMarkerCount(TemplateNode) = 1
        /\ Len(SuppliedPanes) >= 1)
    => IF MarkerPositionFits(TemplateNode)
       THEN /\ PaneResolved
            /\ child_panes[1] =
                   LayoutAtMarkerPosition(
                       TemplateNode, RegisteredPaneTemplate,
                       [TiledPaneLayoutDefault EXCEPT !.children = SuppliedPanes])
       ELSE IsPanic(result)

\* pane_template name="t" { pane; children; pane } consumed with two panes:
\* one layout holding the two, between the panes of the template
OneLayoutBetweenThePanes ==
    /\ PaneResolved
    /\ ConsumesPaneTemplate
    /\ [i \in 1..Len(TemplateNode.children) |-> TemplateNode.children[i].name]
           = <<"pane", "children", "pane">>
    /\ Len(SuppliedPanes) = 2
    /\ Len(child_panes[1].children) = 3
    /\ child_panes[1].children[2].children = SuppliedPanes

\* pane_template name="t" { split_direction "vertical"; children; pane }
\* consumed with one pane: the layout holding it comes after the pane of the
\* template, the marker was before it
OneLayoutAfterThePane ==
    /\ PaneResolved
    /\ ConsumesPaneTemplate
    /\ [i \in 1..Len(TemplateNode.children) |-> TemplateNode.children[i].name]
           = <<"split_direction", "children", "pane">>
    /\ Len(SuppliedPanes) = 1
    /\ Len(child_panes[1].children) = 2
    /\ child_panes[1].children[1] = RegisteredPaneTemplate.children[1]
    /\ child_panes[1].children[2].children = SuppliedPanes

\* the tab template as registered, and the tab its consumer resolved to
RegisteredTabTemplate ==
    IF TemplateNode.name = "tab_template"
    THEN tab_templates[TemplateNode.props["name"].s].layout
    ELSE Unwrap(default_tab_template).layout
TabResolved == pc = "done" /\ result.ok /\ Len(child_tabs) = 1

\* the tree of a template with the default pane where its marker is
DefaultPaneAtMarker(layout) ==
    MarkerReplacedByPanes(TemplateNode, layout, <<TiledPaneLayoutDefault>>)

\* C4 as claimed: a template with one children marker, consumed by a node that
\* nests no panes, resolves to the template's tree with exactly one default
\* pane where the marker was, the other children in their order.
C4_DefaultPaneWhereMarkerWas ==
    (pc = "done" /\ (ConsumesPaneTemplate \/ ConsumesTabTemplate)
        /\ KdlMarkerCount(TemplateNode) = 1 /\ Len(ConsumerNode.children) = 0)
    => /\ ConsumesPaneTemplate =>
              PaneResolved /\ child_panes[1] = DefaultPaneAtMarker(RegisteredPaneTemplate)
       /\ ConsumesTabTemplate =>
              TabResolved
                  /\ child_tabs[1].pane_layout = DefaultPaneAtMarker(RegisteredTabTemplate)

ZeroChildrenBlocks ==
    "This template has 0 children blocks, only 1 is allowed when used to insert child panes"

\* C5: a template without a children marker, consumed with nested panes,
\* fails with the error that the template does not have children.
C5_DoesNotHaveChildren ==
    (pc = "done" /\ (ConsumesPaneTemplate \/ ConsumesTabTemplate)
        /\ KdlMarkerCount(TemplateNode) = 0 /\ Len(SuppliedPanes) >= 1)
    => ~result.ok /\ result.err = "This template does not have children"

\* what the parser does instead: assert_one_children_block runs first, and
\* the parse fails with the error that counts the children blocks of the
\* template, 0 where only 1 is allowed
FailsCountingZeroChildrenBlocks ==
    (pc = "done" /\ (ConsumesPaneTemplate \/ ConsumesTabTemplate)
        /\ KdlMarkerCount(TemplateNode) = 0 /\ Len(SuppliedPanes) >= 1)
    => ~result.ok /\ result.err = ZeroChildrenBlocks

\* a pane template of two panes and no marker was consumed with a pane
TwoPanesAndNoMarker ==
    /\ pc = "done"
    /\ ConsumesPaneTemplate
    /\ KdlMarkerCount(TemplateNode) = 0
    /\ Len(PaneChildren(TemplateNode)) = 2
    /\ Len(SuppliedPanes) = 1
    /\ result.err = ZeroChildrenBlocks

\* C6 as claimed: a template written with two or more children markers,
\* consumed with nested panes, fails with the error that counts its children
\* blocks, wherever the markers are.
C6_TooManyChildrenBlocks ==
    (pc = "done" /\ (ConsumesPaneTemplate \/ ConsumesTabTemplate)
        /\ KdlMarkerCount(TemplateNode) >= 2 /\ Len(SuppliedPanes) >= 1)
    => /\ ~result.ok
       /\ \E count \in 2..(MaxBody + 1) : result.err = ChildrenBlocksError(count)

\* a layout with a children marker somewhere in its tree, and one whose
\* markers are all at an insertion position of the children they are in
RECURSIVE HasMarker(_)
HasMarker(layout) ==
    \/ IsSome(layout.external_children_index)
    \/ \E i \in 1..Len(layout.children) : HasMarker(layout.children[i])
RECURSIVE MarkersAreValid(_)
MarkersAreValid(layout) ==
    /\ IsSome(layout.external_children_index) =>
           Unwrap(layout.external_children_index) \in 0..Len(layout.children)
    /\ \A i \in 1..Len(layout.children) : MarkersAreValid(layout.children[i])

\* C7 as claimed: in the Layout of a successful parse no TiledPaneLayout of
\* any tab or of the template, at any depth, has external_children_index set.
C7_NoMarkerInLayout ==
    (pc = "done" /\ result.ok)
    => /\ \A i \in 1..Len(result.v.tabs) : ~HasMarker(result.v.tabs[i].pane_layout)
       /\ IsSome(result.v.template) => ~HasMarker(Unwrap(result.v.template).pane_layout)

\* C8 as claimed: in every TiledPaneLayout the parser has built, the entries
\* of the template registries included, an external_children_index is an
\* insertion position of the children: 0 <= i <= Len(children).
C8_MarkerIndexIsValid ==
    /\ \A name \in DOMAIN pane_templates :
           pane_templates[name].template.kind # "FloatingPane"
               => MarkersAreValid(pane_templates[name].template.tiled)
    /\ \A name \in DOMAIN tab_templates : MarkersAreValid(tab_templates[name].layout)
    /\ IsSome(default_tab_template) => MarkersAreValid(Unwrap(default_tab_template).layout)
    /\ \A i \in 1..Len(child_panes) : MarkersAreValid(child_panes[i])
    /\ \A i \in 1..Len(child_tabs) : MarkersAreValid(child_tabs[i].pane_layout)

----------------------------------------------------------------------------
(* Properties of parse_pane_command *)

\* the node declares args, close_on_exit or start_suspended and no command
BareDeclared(a) ==
    /\ a.command = None
    /\ a.args # None \/ a.close_on_exit # None \/ a.start_suspended # None

BareAttributeErrors ==
    {"close_on_exit can only be set if a command was specified",
     "start_suspended can only be set if a command was specified",
     "args can only be set if a command was specified"}

\* C9: parse_pane_command resolves (command, edit, cwd) as the resolution
\* table says, whenever the attributes of the node are read without error and,
\* outside a template, the bare-attribute check lets the node through: cwd
\* alone gives Cwd(cwd); command without edit gives Command with that command
\* and the optional cwd; edit with cwd gives EditFile(cwd joined with edit);
\* edit alone gives EditFile(edit); command with edit is the "cannot have
\* both" error; none of the three gives no run action.
C9_ResolutionTable ==
    (/\ pc = "cmd_done"
     /\ cmd_input.context = "parse_pane_command"
     /\ cmd_input.well_typed
     /\ cmd_input.is_template \/ ~BareDeclared(cmd_input.declared))
    => LET a == cmd_input.declared
       IN  /\ (a.command = None /\ a.edit = None /\ a.cwd # None)
                => cmd_output = Ok(Some(RunCwd(PathBufFrom(Unwrap(a.cwd)))))
           /\ (a.command # None /\ a.edit = None)
                => /\ cmd_output.ok
                   /\ IsSome(cmd_output.v)
                   /\ Unwrap(cmd_output.v).kind = "Command"
                   /\ Unwrap(cmd_output.v).path = PathBufFrom(Unwrap(a.command))
                   /\ Unwrap(cmd_output.v).cwd = PathOf(a.cwd)
           /\ (a.command = None /\ a.edit # None /\ a.cwd # None)
                => cmd_output = Ok(Some(RunEditFile(PathJoin(PathBufFrom(Unwrap(a.cwd)),
                                                             PathBufFrom(Unwrap(a.edit))))))
           /\ (a.command = None /\ a.edit # None /\ a.cwd = None)
                => cmd_output = Ok(Some(RunEditFile(PathBufFrom(Unwrap(a.edit)))))
           /\ (a.command # None /\ a.edit # None)
                => /\ ~cmd_output.ok
                   /\ cmd_output.err
                          = "cannot have both a command and an edit instruction for the same pane"
           /\ (a.command = None /\ a.edit = None /\ a.cwd = None)
                => cmd_output = Ok(None)

\* a relative edit under a cwd was resolved to the joined path
C9_Witness ==
    /\ pc = "cmd_done"
    /\ cmd_input.context = "parse_pane_command"
    /\ ~cmd_input.is_template
    /\ cmd_input.declared.command = None
    /\ cmd_input.declared.edit = Some("src/main.rs")
    /\ cmd_input.declared.cwd = Some("/tmp")
    /\ cmd_output = Ok(Some(RunEditFile(PathBuf(TRUE, <<"tmp", "src", "main.rs">>))))

\* C10: outside a template (parse_pane_command with is_template false, a plain
\* pane, a floating pane, a pane_template definition), a node that declares
\* args, close_on_exit or start_suspended and no command is rejected, and when
\* its attributes are well typed the error is one of the three "can only be
\* set if a command was specified" errors.
C10_BareAttributesRejected ==
    (/\ pc = "cmd_done"
     /\ ~cmd_input.is_template
     /\ BareDeclared(cmd_input.declared))
    => /\ ~cmd_output.ok
       /\ cmd_input.well_typed => cmd_output.err \in BareAttributeErrors

\* a floating pane with args and an edit but no command was rejected
C10_Witness ==
    /\ pc = "cmd_done"
    /\ cmd_input.context = "floating_pane"
    /\ cmd_input.declared.command = None
    /\ cmd_input.declared.edit # None
    /\ cmd_input.declared.args # None
    /\ cmd_input.declared.close_on_exit = None
    /\ cmd_input.declared.start_suspended = None
    /\ ~cmd_output.ok
    /\ cmd_output.err = "args can only be set if a command was specified"

----------------------------------------------------------------------------
(* Properties of the consumption of a pane template *)

\* the node that consumes the template, at the top or in floating_panes
Consumer ==
    IF kdl_name(ConsumerNode) = "floating_panes" THEN ConsumerNode.children[1]
    ELSE ConsumerNode
ConsumedAsFloating == kdl_name(ConsumerNode) = "floating_panes"

ResolvesCommand(r) == r.ok /\ IsSome(r.v) /\ Unwrap(r.v).kind = "Command"

\* the run action the definition and the consumer resolve by themselves
TemplateRun == Call("parse_command_plugin_or_edit_block", <<TemplateNode>>)
ConsumerRun == Call("parse_command_plugin_or_edit_block_for_template", <<Consumer>>)

DeclaresBare(kdl_node) ==
    \/ IsSome(kdl_get_child(kdl_node, "args"))
    \/ IsSome(kdl_get_property_or_child(kdl_node, "close_on_exit"))
    \/ IsSome(kdl_get_property_or_child(kdl_node, "start_suspended"))

\* C11: a node consuming a pane template that declares args, close_on_exit or
\* start_suspended is rejected with an error when neither the template nor the
\* node itself resolves a Command run action.
C11_BareAttributesNeedACommand ==
    (/\ pc = "done"
     /\ raw_layout \in RunDocs
     /\ DeclaresBare(Consumer)
     /\ ~ResolvesCommand(TemplateRun)
     /\ ~ResolvesCommand(ConsumerRun))
    => ~result.ok

\* the pane the consumer was resolved to
ConsumedPane ==
    IF ConsumedAsFloating THEN child_floating_panes[1] ELSE child_panes[1]

\* the consumer's value when it declares one, otherwise the template's
ConsumerOverTemplate(consumer, template) ==
    IF IsSome(consumer.v) THEN consumer.v ELSE template.v

DeclaredBool(kdl_node, name) ==
    kdl_get_bool_property_or_child_value_with_error(kdl_node, name)

\* C12: on consuming a pane template, borderless, focus, name and split_size
\* of a tiled pane, and focus, name, x, y, width and height of a floating
\* pane, are the consumer's value when the consumer declares the attribute and
\* the template's otherwise (a template holds no pane name, and is not
\* borderless unless it says so).
C12_ConsumerOverridesTemplate ==
    (pc = "done" /\ raw_layout \in AttributeDocs /\ result.ok)
    => /\ ConsumedPane.focus = ConsumerOverTemplate(DeclaredBool(Consumer, "focus"),
                                                    DeclaredBool(TemplateNode, "focus"))
       /\ ConsumedPane.name
              = kdl_get_string_property_or_child_value_with_error(Consumer, "name").v
       /\ ~ConsumedAsFloating =>
           /\ Some(ConsumedPane.borderless)
                  = ConsumerOverTemplate(DeclaredBool(Consumer, "borderless"),
                        Ok(Some(OrElse(DeclaredBool(TemplateNode, "borderless").v, FALSE))))
           /\ ConsumedPane.split_size
                  = ConsumerOverTemplate(parse_split_size(Consumer),
                                         parse_split_size(TemplateNode))
       /\ ConsumedAsFloating =>
           /\ ConsumedPane.x
                  = ConsumerOverTemplate(parse_percent_or_fixed(Consumer, "x", TRUE),
                                         parse_percent_or_fixed(TemplateNode, "x", TRUE))
           /\ ConsumedPane.y
                  = ConsumerOverTemplate(parse_percent_or_fixed(Consumer, "y", TRUE),
                                         parse_percent_or_fixed(TemplateNode, "y", TRUE))
           /\ ConsumedPane.width
                  = ConsumerOverTemplate(parse_percent_or_fixed(Consumer, "width", FALSE),
                                         parse_percent_or_fixed(TemplateNode, "width", FALSE))
           /\ ConsumedPane.height
                  = ConsumerOverTemplate(parse_percent_or_fixed(Consumer, "height", FALSE),
                                         parse_percent_or_fixed(TemplateNode, "height", FALSE))

\* a floating pane took its x and its focus from the consumer, its width from
\* the template
C12_Witness ==
    /\ pc = "done" /\ raw_layout \in AttributeDocs /\ result.ok
    /\ ConsumedAsFloating
    /\ {"x", "width", "focus"} \subseteq DOMAIN TemplateNode.props
    /\ {"x", "focus"} \subseteq DOMAIN Consumer.props
    /\ "width" \notin DOMAIN Consumer.props
    /\ ConsumedPane.x = Some(Percent(50))
    /\ ConsumedPane.width = Some(Fixed(3))
    /\ ConsumedPane.focus = Some(FALSE)

----------------------------------------------------------------------------
(* Properties of parse_pane_template_node *)

TiledEvidence(kdl_node) ==
    \/ DOMAIN kdl_node.props \cap TiledProperties # {}
    \/ \E i \in 1..Len(kdl_node.children) : kdl_node.children[i].name \in TiledNodes
FloatingEvidence(kdl_node) == DOMAIN kdl_node.props \cap FloatingProperties # {}

\* borderless on a definition that nests nodes: what the rule against mixing
\* children and properties rejects
MixesChildrenAndProperties(kdl_node) ==
    /\ "borderless" \in DOMAIN kdl_node.props
    /\ \E i \in 1..Len(kdl_node.children) : kdl_node.children[i].name \in TiledNodes

RegisteredAs(kind) ==
    /\ result.ok
    /\ "t" \in DOMAIN pane_templates
    /\ pane_templates["t"].template.kind = kind

\* C13: parse_pane_template_node gives every definition exactly one outcome:
\* the "cannot have both pane and floating pane properties" error when it has
\* tiled evidence (borderless, size, split_direction, nested pane, children or
\* template nodes) and floating evidence (x, y, width, height); FloatingPane
\* when it has floating evidence only; Pane when it has tiled evidence only
\* (unless it mixes borderless with nested nodes, which is rejected); Either
\* when it has neither.
C13_OneClassPerDefinition ==
    (pc = "done" /\ raw_layout \in ClassificationDocs)
    => With(TiledEvidence(TemplateNode), LAMBDA tiled :
       With(FloatingEvidence(TemplateNode), LAMBDA floating :
          /\ (tiled /\ floating)
                => /\ ~result.ok
                   /\ result.err
                          = "A pane_template cannot have both pane and floating pane properties"
          /\ (~tiled /\ floating) => RegisteredAs("FloatingPane")
          /\ (tiled /\ ~floating /\ ~MixesChildrenAndProperties(TemplateNode))
                => RegisteredAs("Pane")
          /\ (~tiled /\ ~floating) => RegisteredAs("Either")))

----------------------------------------------------------------------------
(* Properties of the place a pane template is invoked in *)

\* the template is invoked where a floating pane is expected
InvokedAsFloating ==
    \/ kdl_name(ConsumerNode) = "floating_panes"
    \/ kdl_name(ConsumerNode) = "tab" /\ kdl_name(ConsumerNode.children[1]) = "floating_panes"

ClassifiedAs(kind) ==
    "t" \in DOMAIN pane_templates /\ pane_templates["t"].template.kind = kind

\* C14: a template classified FloatingPane invoked where a tiled pane is
\* expected, and a template classified Pane invoked inside floating_panes,
\* make the parse fail with the error that names the mismatch, so that no pane
\* comes of it; a template classified Either is accepted in both places.
C14_TemplateShapeMatchesPlace ==
    (pc = "done" /\ raw_layout \in PlacementDocs)
    => /\ (ClassifiedAs("FloatingPane") /\ ~InvokedAsFloating)
             => /\ ~result.ok
                /\ result.err
                       = "pane_template is a floating pane template and cannot be applied to a tiled pane"
       /\ (ClassifiedAs("Pane") /\ InvokedAsFloating)
             => /\ ~result.ok
                /\ result.err
                       = "pane_template is a non-floating pane template and cannot be applied to a floating pane"
       /\ ClassifiedAs("Either") => result.ok

\* a template with a nested pane, invoked in the floating_panes of a tab,
\* was refused
C14_Witness ==
    /\ pc = "done" /\ raw_layout \in PlacementDocs
    /\ kdl_name(ConsumerNode) = "tab"
    /\ InvokedAsFloating
    /\ TemplateNode.has_children
    /\ ClassifiedAs("Pane")
    /\ ~result.ok
    /\ result.err
           = "pane_template is a non-floating pane template and cannot be applied to a floating pane"

----------------------------------------------------------------------------
(* Properties of assert_no_mixed_children_and_properties *)

\* the node of the document that declares a property and nests a node
NodeUnderTest == IF ConsumerNode = PaneNode THEN TemplateNode ELSE ConsumerNode

\* C15: a node that nests a pane, a tab, a pane template invocation or a
\* children marker, and declares borderless, cwd, or a run action other than a
\* cwd on itself, is rejected, be it a plain pane, the definition of a pane
\* template or a node that consumes a pane template.
C15_NoMixedChildrenAndProperties ==
    (pc = "done" /\ raw_layout \in MixedDocs) => ~result.ok

----------------------------------------------------------------------------
(* Properties of the top of the layout *)

\* the children of the layout node after the two template definitions
TopItems == SubSeq(layout_children, 3, Len(layout_children))

\* C16: a layout with a tab (a tab node or the invocation of a tab template)
\* and a bare pane (a pane node, the invocation of a pane template or a
\* floating_panes block) at its top fails with "Cannot have both tabs and
\* panes in the same node", whichever of the two comes first.
C16_NoTabsAndPanes ==
    (/\ pc = "done"
     /\ raw_layout \in TabsAndPanesDocs
     /\ \E i \in 1..Len(TopItems) : TopItems[i] \in TabItems
     /\ \E i \in 1..Len(TopItems) : TopItems[i] \in PaneItems)
    => /\ ~result.ok
       /\ result.err = "Cannot have both tabs and panes in the same node"

\* the positions, counted from 0, of the tabs that declare focus=true
FocusedTabs ==
    {i - 1 : i \in {j \in 1..Len(TopItems) :
                       kdl_get_bool_property_or_child_value(TopItems[j], "focus") = Some(TRUE)}}

\* C17: a layout with more than one tab declaring focus=true fails with "Only
\* one tab can be focused"; otherwise the parse succeeds with one tab per tab
\* node, and focused_tab_index is the position in Layout.tabs of the one
\* focused tab, or absent when no tab is focused.
C17_OneFocusedTab ==
    (pc = "done" /\ raw_layout \in FocusDocs)
    => IF Cardinality(FocusedTabs) > 1
       THEN ~result.ok /\ result.err = "Only one tab can be focused"
       ELSE /\ result.ok
            /\ Len(result.v.tabs) = Len(TopItems)
            /\ \A i \in FocusedTabs : result.v.focused_tab_index = Some(i)
            /\ FocusedTabs = {} => result.v.focused_tab_index = None

\* the second of three tabs, the invocation of a tab template, is the focused one
C17_Witness ==
    /\ pc = "done" /\ raw_layout \in FocusDocs
    /\ Len(TopItems) = 3
    /\ kdl_name(TopItems[2]) = "tt"
    /\ FocusedTabs = {1}
    /\ result.ok
    /\ result.v.focused_tab_index = Some(1)

\* the bare panes at the top of the layout, and the panes they denote
TopPanes == SelectSeq(TopItems, LAMBDA n : kdl_name(n) \in {"pane", "t"})
NamedPane(kdl_node) ==
    [TiledPaneLayoutDefault EXCEPT
        !.name = kdl_get_string_property_or_child_value(kdl_node, "name")]
ExpectedPanes == [i \in 1..Len(TopPanes) |-> NamedPane(TopPanes[i])]
ExpectedFloatingPanes ==
    IF \E i \in 1..Len(TopItems) : kdl_name(TopItems[i]) = "floating_panes"
    THEN <<FloatingPaneLayoutDefault>> ELSE <<>>
DeclaresDefaultTabTemplate ==
    \E i \in 1..Len(layout_children) : kdl_name(layout_children[i]) = "default_tab_template"

\* the one synthetic tab: unnamed, holding the top-level panes in order
SyntheticTab ==
    LayoutTab(None, [TiledPaneLayoutDefault EXCEPT !.children = ExpectedPanes],
              ExpectedFloatingPanes)

\* C18 as stated: a layout without tabs and with panes at its top yields
\* exactly one synthetic tab holding those panes in order, whether or not a
\* default tab template is declared.
C18_OneSyntheticTab ==
    (pc = "done" /\ raw_layout \in PanesOnlyDocs)
    => result.ok /\ result.v.tabs = <<SyntheticTab>>

\* C18: a layout without tabs and with panes at its top yields exactly one
\* synthetic tab holding those panes in order when a default tab template is
\* declared; when none is declared Layout.tabs is empty and Layout.template is
\* that synthetic tab.
C18_OneSyntheticTabUnderADefaultTemplate ==
    (pc = "done" /\ raw_layout \in PanesOnlyDocs)
    => /\ result.ok
       /\ DeclaresDefaultTabTemplate => result.v.tabs = <<SyntheticTab>>
       /\ ~DeclaresDefaultTabTemplate
             => result.v.tabs = <<>> /\ result.v.template = Some(SyntheticTab)

\* two panes and a floating pane under a default tab template made one tab
C18_Witness ==
    /\ pc = "done" /\ raw_layout \in PanesOnlyDocs
    /\ DeclaresDefaultTabTemplate
    /\ Len(TopPanes) = 2
    /\ kdl_name(TopPanes[1]) = "t" /\ TopPanes[2] = Named(PaneNode, "b")
    /\ result.ok
    /\ Len(result.v.tabs) = 1
    /\ result.v.tabs[1].pane_layout.children[1].name = Some("a")
    /\ result.v.tabs[1].pane_layout.children[2].name = Some("b")
    /\ Len(result.v.tabs[1].floating_panes) = 1

\* the tree with a default pane at every children marker, and the markers
\* cleared
RECURSIVE MarkersReplaced(_)
MarkersReplaced(layout) ==
    With([i \in 1..Len(layout.children) |-> MarkersReplaced(layout.children[i])],
         LAMBDA children :
    [layout EXCEPT
        !.children = IF IsSome(layout.external_children_index)
                     THEN InsertAt(children, Unwrap(layout.external_children_index),
                                   TiledPaneLayoutDefault)
                     ELSE children,
        !.external_children_index = None])

\* C19: every successful parse returns a Layout with a template, and when a
\* default tab template is declared the tiled tree of that template is the
\* default tab template with a default pane in the place of its children
\* marker and no marker left, whether the layout has tabs, only panes or
\* neither.
C19_TemplateIsTheDefaultTabTemplate ==
    (pc = "done" /\ result.ok)
    => /\ IsSome(result.v.template)
       /\ (IsSome(default_tab_template)
               /\ MarkersAreValid(Unwrap(default_tab_template).layout))
             => Unwrap(result.v.template).pane_layout
                    = MarkersReplaced(Unwrap(default_tab_template).layout)

----------------------------------------------------------------------------
(* Properties of the working directories *)

DeclaredCwd(kdl_node) == PathOf(kdl_get_string_property_or_child_value(kdl_node, "cwd"))

\* the first path under the second, or whichever of the two exists
Under(path, base) ==
    IF IsSome(base) /\ IsSome(path) THEN Some(PathJoin(Unwrap(base), Unwrap(path)))
    ELSE IF IsSome(path) THEN path
    ELSE base

\* the tab of the document, its pane, and the pane the parse made of it
CwdTab == layout_children[2]
CwdPane == CwdTab.children[1]
RECURSIVE FirstLeaf(_)
FirstLeaf(layout) ==
    IF Len(layout.children) = 0 THEN layout ELSE FirstLeaf(layout.children[1])

\* C20: the global cwd is the one handed to the parser when one is, otherwise
\* the cwd of the layout node; the prefix of a tab is the global cwd joined
\* with the cwd of the tab when both exist, else whichever exists, else none;
\* and the pane of the tab runs in its own cwd under that prefix, or in the
\* prefix itself when it declares none.
C20_CwdPrefix ==
    /\ [][pc = "populate_global_cwd" /\ pc' # "done"
             => global_cwd' = IF IsSome(global_cwd) THEN global_cwd
                              ELSE DeclaredCwd(layout_node)]_vars
    /\ [][pc # "populate_global_cwd" => global_cwd' = global_cwd]_vars
    /\ []((pc = "done" /\ raw_layout \in CwdDocs)
            => /\ result.ok
               /\ Len(result.v.tabs) = 1
               /\ With(Under(DeclaredCwd(CwdPane), Under(DeclaredCwd(CwdTab), global_cwd)),
                       LAMBDA cwd :
                          FirstLeaf(result.v.tabs[1].pane_layout).run
                              = IF IsSome(cwd) THEN Some(RunCwd(Unwrap(cwd))) ELSE None))

\* under the cwd /home/user of the layout, the pane of a tab with the cwd proj
\* runs in /home/user/proj
C20_Witness ==
    /\ pc = "done" /\ raw_layout \in CwdDocs
    /\ DeclaredCwd(layout_node) = Some(PathBufFrom("/home/user"))
    /\ global_cwd = Some(PathBufFrom("/home/user"))
    /\ kdl_name(CwdTab) = "tab"
    /\ DeclaredCwd(CwdTab) = Some(PathBufFrom("proj"))
    /\ DeclaredCwd(CwdPane) = None
    /\ result.ok
    /\ result.v.tabs[1].pane_layout.children[1].run
           = Some(RunCwd(PathBuf(TRUE, <<"home", "user", "proj">>)))

----------------------------------------------------------------------------
(* Properties of the working directory of the panes of a tab *)

TabOfPanes == layout_children[3]

\* what a pane without a cwd of its own runs under that prefix
RunUnder(prefix) == IF IsSome(prefix) THEN Some(RunCwd(Unwrap(prefix))) ELSE None

\* every tiled pane below the layout, at any depth, runs that
RECURSIVE TiledPanesRun(_, _)
TiledPanesRun(layout, run) ==
    \A i \in 1..Len(layout.children) :
        layout.children[i].run = run /\ TiledPanesRun(layout.children[i], run)

FloatingPanesRun(floating_panes, run) ==
    \A i \in 1..Len(floating_panes) : floating_panes[i].run = run

\* the tiled panes of the tab run under the combined prefix
TiledPanesOfTheTabRunUnderThePrefix ==
    (pc = "done" /\ raw_layout \in TabCwdDocs)
        => /\ result.ok /\ Len(result.v.tabs) = 1
           /\ TiledPanesRun(result.v.tabs[1].pane_layout,
                            RunUnder(Under(DeclaredCwd(TabOfPanes), global_cwd)))

\* C21: in a tab, every tiled pane at any depth and every floating pane, plain
\* or out of a pane template, runs under the global cwd joined with the cwd of
\* the tab.
C21_TabCwdOnEveryPane ==
    (pc = "done" /\ raw_layout \in TabCwdDocs)
        => /\ result.ok /\ Len(result.v.tabs) = 1
           /\ With(RunUnder(Under(DeclaredCwd(TabOfPanes), global_cwd)), LAMBDA run :
                  /\ TiledPanesRun(result.v.tabs[1].pane_layout, run)
                  /\ FloatingPanesRun(result.v.tabs[1].floating_panes, run))

----------------------------------------------------------------------------
(* Properties of parse_constraint *)

\* the group of the document, its alternate, and what the alternate declares
SwapGroup == layout_children[2]
SwapAlternateNode == SwapGroup.children[1]
DeclaredValue(kdl_node, name) ==
    IF name \in DOMAIN kdl_node.props THEN Some(kdl_node.props[name]) ELSE None
IsQuoted(value) == IsSome(value) /\ Unwrap(value).kind = "string"

\* the groups parse returned for the kind of group the document declares
ReturnedGroups ==
    IF kdl_name(SwapGroup) = "swap_tiled_layout" THEN result.v.swap_tiled_layouts
    ELSE result.v.swap_floating_layouts

ConstraintErrors ==
    {"max_panes should be a fixed number (eg. 1) and not a quoted string",
     "min_panes should be a fixed number (eg. 1) and not a quoted string"}

\* C22: on the alternate of a swap layout a quoted min_panes or max_panes is
\* the "should be a fixed number" error, min_panes together with max_panes is
\* an error, min_panes n alone gives MinPanes(n), max_panes n alone gives
\* MaxPanes(n), and an alternate declaring neither gets NoConstraint.
C22_ParseConstraint ==
    (pc = "done" /\ raw_layout \in ConstraintDocs)
        => With(DeclaredValue(SwapAlternateNode, "min_panes"), LAMBDA min_panes :
           With(DeclaredValue(SwapAlternateNode, "max_panes"), LAMBDA max_panes :
              IF IsQuoted(min_panes) \/ IsQuoted(max_panes)
              THEN ~result.ok /\ result.err \in ConstraintErrors
              ELSE IF IsSome(min_panes) /\ IsSome(max_panes)
              THEN /\ ~result.ok
                   /\ result.err = "cannot have more than one constraint (eg. max_panes + min_panes)"
              ELSE /\ result.ok
                   /\ Len(ReturnedGroups) = 1
                   /\ DOMAIN ReturnedGroups[1]
                          = {IF IsSome(min_panes) THEN MinPanes(Unwrap(min_panes).n)
                             ELSE IF IsSome(max_panes) THEN MaxPanes(Unwrap(max_panes).n)
                             ELSE NoConstraint}))

\* swap_tiled_layout { tab min_panes=2 { pane } } holds its layout under MinPanes(2)
C22_Witness ==
    /\ pc = "done" /\ raw_layout \in ConstraintDocs
    /\ kdl_name(SwapGroup) = "swap_tiled_layout" /\ kdl_name(SwapAlternateNode) = "tab"
    /\ DeclaredValue(SwapAlternateNode, "min_panes") = Some(IntValue(2))
    /\ DeclaredValue(SwapAlternateNode, "max_panes") = None
    /\ result.ok
    /\ DOMAIN result.v.swap_tiled_layouts[1] = {MinPanes(2)}

----------------------------------------------------------------------------
(* Properties of populate_swap_tiled_layouts and populate_swap_floating_layouts *)

\* the declarations of that kind, in the order of the document
Declarations(group) == SelectSeq(layout_children, LAMBDA n : kdl_name(n) = group)

\* the constraint an alternate of the documents declares
ConstraintOf(alternate) ==
    IF "max_panes" \in DOMAIN alternate.props
    THEN MaxPanes(alternate.props["max_panes"].n) ELSE NoConstraint

\* the name of the pane an alternate of the documents holds
OwnPane(alternate) ==
    IF kdl_name(alternate.children[1]) = "floating_panes"
    THEN alternate.children[1].children[1] ELSE alternate.children[1]
OwnName(alternate) == Some(OwnPane(alternate).props["name"].s)

\* the names of the panes of a tiled layout, and of a list of floating panes
RECURSIVE PaneNames(_)
PaneNames(layout) ==
    {layout.name} \cup UNION {PaneNames(layout.children[i]) : i \in 1..Len(layout.children)}
FloatingPaneNames(floating_panes) ==
    {floating_panes[i].name : i \in 1..Len(floating_panes)}

\* the mapping holds the layout of that alternate under the alternate's constraint
HoldsAlternate(mapping, alternate, is_tiled) ==
    /\ ConstraintOf(alternate) \in DOMAIN mapping
    /\ OwnName(alternate) \in (IF is_tiled THEN PaneNames(mapping[ConstraintOf(alternate)])
                               ELSE FloatingPaneNames(mapping[ConstraintOf(alternate)]))

\* one mapping per declaration, in order, each holding all its alternates
MappingsAsDeclared(mappings, declarations, is_tiled) ==
    /\ Len(mappings) = Len(declarations)
    /\ \A d \in 1..Len(declarations) :
           \A j \in 1..Len(declarations[d].children) :
               HoldsAlternate(mappings[d], declarations[d].children[j], is_tiled)

SwapLayoutsAsDeclared ==
    /\ result.ok
    /\ MappingsAsDeclared(result.v.swap_tiled_layouts,
                          Declarations("swap_tiled_layout"), TRUE)
    /\ MappingsAsDeclared(result.v.swap_floating_layouts,
                          Declarations("swap_floating_layout"), FALSE)

\* the declarations have a block, and no two alternates of one declaration
\* have the same constraint
DistinctConstraints ==
    \A d \in 1..Len(layout_children) :
        kdl_name(layout_children[d]) \in SwapGroupKinds
            => /\ layout_children[d].has_children
               /\ \A i, j \in 1..Len(layout_children[d].children) :
                      i # j => ConstraintOf(layout_children[d].children[i])
                                   # ConstraintOf(layout_children[d].children[j])

\* under DistinctConstraints the mappings are as declared
SwapLayoutsOfDistinctConstraints ==
    (pc = "done" /\ raw_layout \in SwapGroupsDocs /\ DistinctConstraints)
        => SwapLayoutsAsDeclared

\* C23: swap_tiled_layouts and swap_floating_layouts hold one mapping per
\* declaration, in the order of the declarations, and each mapping holds every
\* alternate of its declaration under the alternate's constraint, with the
\* alternate's layout.
C23_SwapLayoutsAsDeclared ==
    (pc = "done" /\ raw_layout \in SwapGroupsDocs) => SwapLayoutsAsDeclared

----------------------------------------------------------------------------
(* Properties of the names of the templates *)

\* the definitions of that kind in the document, and their names
DefinitionsOf(kind) == SelectSeq(layout_children, LAMBDA n : kdl_name(n) = kind)
NamesOf(definitions) == {definitions[i].props["name"].s : i \in 1..Len(definitions)}
DefinedTwice(definitions) ==
    \E i, j \in 1..Len(definitions) :
        i # j /\ definitions[i].props["name"].s = definitions[j].props["name"].s

NameClash ==
    \/ DefinedTwice(DefinitionsOf("pane_template"))
    \/ DefinedTwice(DefinitionsOf("tab_template"))
    \/ NamesOf(DefinitionsOf("pane_template")) \cap NamesOf(DefinitionsOf("tab_template")) # {}

NameClashErrors ==
    {"Duplicate definition of the \"a\" pane_template",
     "Duplicate definition of the \"b\" pane_template",
     "Duplicate definition of the \"a\" tab_template",
     "Duplicate definition of the \"b\" tab_template",
     "There is already a pane_template with the name \"a\" - can't have a tab_template with the same name",
     "There is already a pane_template with the name \"b\" - can't have a tab_template with the same name"}

\* every definition of the list is what the registry holds under its name
RegisteredAsDeclared(registry, definitions) ==
    /\ DOMAIN registry = NamesOf(definitions)
    /\ \A i \in 1..Len(definitions) :
           registry[definitions[i].props["name"].s].kdl_node = definitions[i]

\* C24: a layout defining two pane templates of one name, two tab templates
\* of one name, or a tab template named like a pane template fails to parse;
\* after every successful parse no name is in both registries, and each name
\* maps to the one definition that declares it.
C24_TemplateNamesAreUnique ==
    /\ (pc = "done" /\ raw_layout \in DefinitionsDocs)
           => IF NameClash THEN ~result.ok /\ result.err \in NameClashErrors
              ELSE /\ result.ok
                   /\ RegisteredAsDeclared(pane_templates, DefinitionsOf("pane_template"))
                   /\ RegisteredAsDeclared(tab_templates, DefinitionsOf("tab_template"))
    /\ (pc = "done" /\ result.ok)
           => DOMAIN pane_templates \cap DOMAIN tab_templates = {}

\* two pane templates a and b next to a tab template named like one of them:
\* the parse fails on the tab template
C24_Witness ==
    /\ pc = "done" /\ raw_layout \in DefinitionsDocs
    /\ NameClash /\ ~result.ok
    /\ Len(DefinitionsOf("pane_template")) = 2
    /\ ~DefinedTwice(DefinitionsOf("pane_template"))
    /\ Len(DefinitionsOf("tab_template")) = 1
    /\ \E name \in {"a", "b"} :
           result.err = "There is already a pane_template with the name \"" \o name
                        \o "\" - can't have a tab_template with the same name"

----------------------------------------------------------------------------
(* Properties of calling parse() again *)

\* the document defines a tab template
DefinesTabTemplates == Len(DefinitionsOf("tab_template")) > 0

\* on a parser whose document defines no tab template, or whose first call
\* failed before populate_tab_templates registered one, the next call
\* returns what the first did
SameOutcomeWithoutTabTemplates ==
    (pc = "done" /\ Len(returned) = 1 /\ DOMAIN tab_templates = {})
        => result = returned[1]

\* C25: the registries are new for each call of parse, so a second call on the
\* same parser returns what the first call returned, the same Layout or the
\* same error.
C25_ParseAgainReturnsTheSame ==
    (pc = "done" /\ Len(returned) = 1) => result = returned[1]

----------------------------------------------------------------------------
(* Properties of parse_split_size and parse_percent_or_fixed *)

\* the attribute the method is asked for is on the node, as a property or as a
\* child node
IsPresent ==
    \/ cmd_input.value_name \in DOMAIN cmd_input.node.props
    \/ IsSome(kdl_child_with_name(cmd_input.node, cmd_input.value_name))

\* what the node gives the attribute: a property, the argument of the child
\* node, or nothing
GivenValue == kdl_property_or_child_value_node(cmd_input.node, cmd_input.value_name)

ReadsGeometry == cmd_input.context \in {"parse_split_size", "parse_percent_or_fixed"}

\* the attribute is absent for the method: Ok(None)
ReturnsAbsent == cmd_output.ok /\ cmd_output.v = None

\* parse_split_size returns Ok(None) only for a node without a size
SizeAbsentOnlyWhenNotPresent ==
    (pc = "cmd_done" /\ cmd_input.context = "parse_split_size" /\ ReturnsAbsent)
        => ~IsPresent

\* C26: for size, x, y, width and height the parser returns Ok(None) only when
\* the attribute is not on the node; an attribute that is there with a value
\* that is neither an integer nor a string (a boolean, a child node without a
\* value) is an error.
C26_AbsentOnlyWhenNotPresent ==
    (pc = "cmd_done" /\ ReadsGeometry)
        => /\ ReturnsAbsent => ~IsPresent
           /\ (IsPresent /\ (IsNone(GivenValue)
                                \/ Unwrap(GivenValue).kind \notin {"int", "string"}))
                  => ~cmd_output.ok

----------------------------------------------------------------------------
(* Properties of the integers given as sizes, positions and constraints *)

GivenInteger == IsSome(GivenValue) /\ Unwrap(GivenValue).kind = "int"

\* a zero given where zero is forbidden, for size, width and height, is an
\* error
ZeroIsAnErrorWhereForbidden ==
    (pc = "cmd_done" /\ GivenInteger /\ Unwrap(GivenValue).n = 0
                     /\ ~cmd_input.can_be_zero)
        => ~cmd_output.ok

\* C27: an integer given as size, width or height is accepted only when it is
\* positive, and one given as x, y, min_panes or max_panes only when it is
\* not negative; a forbidden zero and every negative integer are errors.
C27_IntegersInRange ==
    (pc = "cmd_done" /\ GivenInteger /\ cmd_output.ok)
        => \/ Unwrap(GivenValue).n > 0
           \/ Unwrap(GivenValue).n = 0 /\ cmd_input.can_be_zero

----------------------------------------------------------------------------
(* Properties of the loop of populate_pane_templates *)

\* C28: every round of the topological sort either returns the circular
\* dependency error or leaves fewer templates in the dependency tree, and the
\* loop ends: with an empty tree, or with that error.
C28_ToposortTerminates ==
    /\ [][pc = "toposort"
             => \/ pc' = "done" /\ ~result'.ok /\ result'.err = CircularDependency
                \/ Cardinality(DOMAIN pane_template_dependency_tree')
                       < Cardinality(DOMAIN pane_template_dependency_tree)]_vars
    /\ (pc = "toposort")
           ~> \/ pc # "toposort" /\ DOMAIN pane_template_dependency_tree = {}
              \/ pc = "done" /\ ~result.ok /\ result.err = CircularDependency

\* the loop after a round that took some templates and left others
C28_Witness ==
    /\ pc = "toposort"
    /\ Len(pane_template_names_to_parse) > 0
    /\ Cardinality(DOMAIN pane_template_dependency_tree) > 0

----------------------------------------------------------------------------
(* Properties of the order the candidates of a round are taken in *)

\* the sorted list when every round hands out its candidates by name
RECURSIVE NamesByName(_)
NamesByName(dependency_tree) ==
    IF Candidates(dependency_tree) = {} THEN <<>>
    ELSE InOrder(Candidates(dependency_tree))
             \o NamesByName(RemoveCandidates(dependency_tree, Candidates(dependency_tree)))

\* the registry after parsing the names of the list from names[i] on
RECURSIVE RegistryFrom(_, _, _)
RegistryFrom(this, names, i) ==
    IF i > Len(names) THEN Ok(this.pane_templates)
    ELSE AndThen(parse_pane_template_by_name(this, names[i], layout_children),
                 LAMBDA registry :
             RegistryFrom([this EXCEPT !.pane_templates = registry], names, i + 1))

\* what populate_pane_templates registers when the candidates come by name
RegistryByName ==
    AndThen(get_pane_template_dependency_tree(layout_children), LAMBDA tree :
        RegistryFrom([This EXCEPT !.pane_templates = EmptyMap], NamesByName(tree), 1))

\* populate_pane_templates has just returned Ok
PaneTemplatesPopulated == pc = "populate_tab_templates"

\* C29: whatever order the candidates of each round are handed out in, the
\* registry populate_pane_templates returns with is the one it returns with
\* when they are handed out by name.
C29_RegistryWhateverTheOrder ==
    PaneTemplatesPopulated
        => RegistryByName.ok /\ pane_templates = RegistryByName.v

\* b and c were candidates of one round and c was taken first
C29_Witness ==
    /\ PaneTemplatesPopulated
    /\ \E i, j \in 1..Len(pane_template_names_to_parse) :
           /\ i < j
           /\ pane_template_names_to_parse[i] = "c"
           /\ pane_template_names_to_parse[j] = "b"
           /\ pane_template_names_to_parse # NamesByName(
                  get_pane_template_dependency_tree(layout_children).v)
    /\ DOMAIN pane_templates = {"a", "b", "c"}

-----------------------------------------------------------------------------
(* Properties of where the definitions sit among the children of the layout *)

IsDefinition(child) ==
    kdl_name(child) \in {"pane_template", "tab_template", "default_tab_template"}

\* the children with the definitions moved to the front, and to the back
DefinitionsFirst(children) ==
    SelectSeq(children, IsDefinition) \o SelectSeq(children, LAMBDA c : ~IsDefinition(c))
DefinitionsLast(children) ==
    SelectSeq(children, LAMBDA c : ~IsDefinition(c)) \o SelectSeq(children, IsDefinition)

\* the sorted list of populate_pane_templates, for one of the orders the
\* candidates of a round can be taken in
RECURSIVE SortedNames(_)
SortedNames(dependency_tree) ==
    IF DOMAIN dependency_tree = {} THEN Ok(<<>>)
    ELSE IF Candidates(dependency_tree) = {} THEN Err(CircularDependency)
    ELSE AndThen(SortedNames(RemoveCandidates(dependency_tree, Candidates(dependency_tree))),
                 LAMBDA rest :
             Ok((CHOOSE order \in Orderings(Candidates(dependency_tree)) : TRUE) \o rest))

\* the registry after parsing the names of the list from names[i] on
RECURSIVE PaneTemplatesFrom(_, _, _, _)
PaneTemplatesFrom(this, names, i, children) ==
    IF i > Len(names) THEN Ok(this.pane_templates)
    ELSE AndThen(parse_pane_template_by_name(this, names[i], children), LAMBDA registry :
             PaneTemplatesFrom([this EXCEPT !.pane_templates = registry], names, i + 1, children))

\* the loop of parse() over the children, from children[i] on
RECURSIVE LayoutChildrenFrom(_, _, _, _)
LayoutChildrenFrom(this, children, i, sofar) ==
    IF i > Len(children) THEN Ok(sofar)
    ELSE AndThen(populate_layout_child(this, children[i], sofar.child_tabs, sofar.child_panes, sofar.child_floating_panes),
                 LAMBDA next : LayoutChildrenFrom(this, children, i + 1, next))

\* what parse() returns for a layout node with these children
ParseOfChildren(children) ==
    AndThen(get_pane_template_dependency_tree(children), LAMBDA tree :
    AndThen(SortedNames(tree), LAMBDA names :
    AndThen(PaneTemplatesFrom([This EXCEPT !.pane_templates = EmptyMap,
                                           !.tab_templates = EmptyMap,
                                           !.default_tab_template = None],
                              names, 1, children), LAMBDA registry :
    AndThen(populate_tab_templates([This EXCEPT !.pane_templates = registry,
                                                !.tab_templates = EmptyMap,
                                                !.default_tab_template = None],
                                   children), LAMBDA templates :
    With([This EXCEPT !.pane_templates = registry,
                      !.tab_templates = templates.tab_templates,
                      !.default_tab_template = templates.default_tab_template],
         LAMBDA this :
    AndThen(populate_swap_tiled_layouts(this, children), LAMBDA swap_tiled :
    AndThen(populate_swap_floating_layouts(this, children), LAMBDA swap_floating :
    AndThen(LayoutChildrenFrom(this, children, 1, LayoutChildren(<<>>, <<>>, <<>>)),
            LAMBDA populated :
        FinishParse(this, populated.child_tabs, populated.child_panes,
                    populated.child_floating_panes, swap_tiled, swap_floating)))))))))

SameOutcome(r1, r2) ==
    /\ r1.ok = r2.ok
    /\ r1.ok => r1.v = r2.v
    /\ ~r1.ok => r1.err = r2.err

\* the names the document defines, wherever the definitions sit
NamesDefinedAs(kind) ==
    {child.props["name"].s :
        child \in {c \in SeqToSet(layout_children) : kdl_name(c) = kind}}

\* no tab template is parsed before every pane template is registered
PaneTemplatesBeforeTabTemplates ==
    /\ pc \in {"parse", "populate_global_cwd", "get_pane_template_dependency_tree",
               "toposort", "parse_pane_templates", "populate_tab_templates"}
           => DOMAIN tab_templates = {} /\ default_tab_template = None
    /\ pc \in {"populate_tab_templates", "populate_swap_tiled_layouts",
               "populate_swap_floating_layouts", "populate_layout_child", "finish"}
           => DOMAIN pane_templates = NamesDefinedAs("pane_template")

\* no swap layout, tab or pane of the layout is resolved before every
\* template is registered
TemplatesBeforeConsumers ==
    /\ pc \in {"parse", "populate_global_cwd", "get_pane_template_dependency_tree",
               "toposort", "parse_pane_templates", "populate_tab_templates",
               "populate_swap_tiled_layouts"}
           => /\ swap_tiled_layouts = <<>> /\ swap_floating_layouts = <<>>
              /\ child_tabs = <<>> /\ child_panes = <<>> /\ child_floating_panes = <<>>
    /\ pc \in {"populate_swap_tiled_layouts", "populate_swap_floating_layouts",
               "populate_layout_child", "finish"}
           => /\ DOMAIN pane_templates = NamesDefinedAs("pane_template")
              /\ DOMAIN tab_templates = NamesDefinedAs("tab_template")
              /\ IsSome(default_tab_template)
                     <=> \E c \in SeqToSet(layout_children) :
                             kdl_name(c) = "default_tab_template"

\* C30: every pane template is registered before a tab template is parsed and
\* every template before a swap layout, tab or pane of the layout is resolved,
\* so parse() returns the same for a document as for the document with its
\* definitions moved before, or after, the nodes that invoke them.
C30_DefinitionsAnywhere ==
    raw_layout \in AnywhereDocs
        => /\ PaneTemplatesBeforeTabTemplates
           /\ TemplatesBeforeConsumers
           /\ pc = "done"
                  => /\ SameOutcome(result, ParseOfChildren(DefinitionsFirst(layout_children)))
                     /\ SameOutcome(result, ParseOfChildren(DefinitionsLast(layout_children)))

\* a parse that resolved a tab through the tab template and the pane template,
\* both defined after the tab that invokes them
C30_Witness ==
    /\ raw_layout \in AnywhereDocs
    /\ pc = "done" /\ result.ok
    /\ kdl_name(layout_children[1]) = "tt"
    /\ layout_children # DefinitionsFirst(layout_children)
    /\ Len(result.v.tabs) > 0

====
